---- MODULE Spec2Model ----
(***************************************************************************)
(* A model of the AnimeDB-Helper plugin: the synchronization engine        *)
(* (resources/lib/sync.py), the authenticated request operations of the    *)
(* remote service clients (resources/lib/api.py), the library store        *)
(* (resources/lib/library.py), the response cache (api.py), the playback   *)
(* progress tracker (player.py), the local watchlist (watchlist.py), the   *)
(* background scheduler (service.py) and the history database (history.py).*)
(***************************************************************************)
EXTENDS Integers, Sequences, FiniteSets, TLC

(***************************************************************************)
(* Bounds of the model.                                                    *)
(***************************************************************************)
\* Largest number of items in the local watchlist / the local history.
MaxItems == 2

\* Largest max_retries argument of a request.
MaxRetries == 3

\* Cap on the HTTP requests of one request operation (a loop that never
\* advances its counter is cut here).
MaxHttpCalls == 6

\* Largest episode number, and largest total_episodes, given to the library.
MaxEpisode == 2

\* Largest value of the clock read by int(time.time()).
MaxClock == 1

\* Cap on the length of the library's watch history.
MaxHistory == 2

\* Largest number of play_episode calls.
MaxSessions == 1

\* Largest number of iterations of the monitoring loop in one session.
MaxPolls == 2

\* Largest value of the clock the schedulers read, in hours.
MaxSchedClock == 4

\* Largest sync_interval setting, in hours.
MaxInterval == 2

\* Largest value of the clock the history database reads.
MaxHistClock == 2

\* Largest max_entries given to prune_history.
MaxPruneLimit == 1

\* Largest value of the clock the cache reads.
MaxCacheClock == 3

\* Largest version of the payload the remote service serves.
MaxVersion == 1

(***************************************************************************)
(* Program constants.                                                      *)
(***************************************************************************)
\* sync.py 87-92: the services, in the order sync_all appends them.
ServiceOrder == <<"anilist", "mal", "trakt">>

Services == {"anilist", "mal", "trakt"}

\* The stages with the history stage ahead of the watchlist stage.
StageOrder_swapped == <<"history", "watchlist", "ratings">>

\* sync.py 120-158: the stages, in the order sync_all runs them.
StageOrder == <<"watchlist", "history", "ratings">>

Stages == {"watchlist", "history", "ratings"}

VARIABLES
  \* ---- persisted documents
  library,          \* the library document: AnimeLibrary.library['anime']
  history,          \* the history log
  watchlist,        \* the local watchlist document
  watch_history,    \* AnimeLibrary.watch_history['history']
  \* ---- the calls made on the AnimeLibrary instance
  now,              \* the clock read by int(time.time())
  lib_return,       \* what the latest library operation returned
  lastOp,           \* the latest library operation and its arguments
  repeated,         \* the latest operation repeats the one before it
  \* ---- one run of sync_all
  sync_pc,          \* position of the run
  enabled_services, \* sync_all's list enabled_services
  sync_settings,    \* the stage settings read by sync_all (set of enabled stages)
  has_callback,     \* whether progress_callback was given
  cancel_flag,      \* the threading.Event: is_set()
  stage,            \* index in StageOrder of the stage at hand
  svcIdx,           \* index of the service at hand in the stage's loop
  itemIdx,          \* index of the item at hand in the service's loop
  local_items,      \* the stage's local list (local_watchlist / local_history)
  service_result,   \* the service_result record being filled
  results,          \* sync_all's results, per stage
  sync_return,      \* what sync_all returned
  \* ---- observations of the run
  stagesEntered,    \* the stage functions called, in order
  callbacks,        \* number of progress_callback calls
  remoteCalls,      \* number of calls into the remote service client
  visits,           \* times each (stage, service, item) was processed
  cancelStage,      \* where the run was when another thread set the flag
  cancelPreset,     \* the flag was set when sync_all was invoked
  storeAtStart,     \* the persisted documents when sync_all was invoked
  \* ---- one authenticated request of a remote service client
  req_pc,           \* position of the request
  client,           \* the service whose request operation runs
  max_retries,      \* the request's max_retries argument
  attempt,          \* the loop counter (attempt / retry_count)
  hasAuth,          \* whether headers holds an Authorization entry
  req_result,       \* what the request operation returned
  json_error,       \* the class of the exception response.json() raises
  \* ---- observations of the request
  httpCalls,        \* number of HTTP requests sent
  refreshCalls,     \* number of token refreshes asked of the credential store
  seen,             \* the statuses the server answered with
  bodiesSeen,       \* the kinds of body response.json() was given
  waited            \* xbmc.sleep was called after the latest response

syncVars == <<sync_pc, enabled_services, sync_settings, has_callback, cancel_flag,
              stage, svcIdx, itemIdx, local_items, service_result, results,
              sync_return, stagesEntered, callbacks, remoteCalls, visits,
              cancelStage, cancelPreset, storeAtStart>>

storeVars == <<library, history, watchlist>>

libVars == <<watch_history, now, lib_return, lastOp, repeated>>

\* ---- the response cache of one key (api.py, cached)
VARIABLES
  cache_file, \* the cache file of the key: its mtime and its payload, or NoFile
  cache_now, \* the clock read by time.time()
  remote_version, \* the payload func() fetches from the remote service
  cache_call  \* the latest call of cached and what it did

cacheVars == <<cache_file, cache_now, remote_version, cache_call>>

\* ---- the playback progress tracker (player.py, AnimePlayer)
VARIABLES
  player_pc, \* position of the tracker: idle, monitoring, stopped or ended
  p_episode, \* AnimePlayer.episode
  p_total, \* AnimePlayer.total_episodes
  duration, \* AnimePlayer.duration, in seconds
  last_progress_update, \* AnimePlayer.last_progress_update
  play_clock, \* the clock read by time.time(), in seconds
  session, \* number of play_episode calls so far
  polls, \* iterations of the monitoring loop in this session
  markCalls, \* LIBRARY.mark_episode_watched calls of this session
  reached90, \* a poll of this session sampled at least 90% of the duration
  endRuns, \* runs of _on_playback_ended in this session
  sample  \* the latest position sampled and what the tracker did with it

playerVars == <<player_pc, p_episode, p_total, duration, last_progress_update, play_clock, session, polls, markCalls, reached90, endRuns, sample>>

\* ---- the calls of the watchlist operations (watchlist.py)
VARIABLES
  wl_return, \* what the latest watchlist operation returned
  wl_call  \* the latest watchlist operation, its arguments, and whether the anime was listed

wlVars == <<wl_return, wl_call>>

\* ---- the background scheduler (service.py, sync.run_monitor) and the runs of sync_all
VARIABLES
  sched_now, \* the clock read by time.time() and datetime.now(), in hours
  last_sync_time, \* AnimeDBMonitor.last_sync_time
  last_sync_setting, \* the setting last_sync_time; NoTime when it is empty
  sync_threads, \* the start times of the SyncThreads still in sync_all
  monitor_run, \* the start time of the sync_all the MonitorThread is in, or NoTime
  user_run, \* the start time of the sync_all of the sync action, or NoTime
  last_success, \* the start time of the latest sync_all that succeeded
  sched_check  \* the latest check of a scheduler and what it decided

schedVars == <<sched_now, last_sync_time, last_sync_setting, sync_threads, monitor_run, user_run, last_success, sched_check>>

\* ---- the history database (history.py) and the calls made on it
VARIABLES
  hist_now, \* the clock read by int(time.time())
  hist_op, \* the latest operation on the history database
  hist_return, \* what the latest operation returned
  hist_sync  \* the latest filtered sync_history and what it found

histVars == <<hist_now, hist_op, hist_return, hist_sync>>

\* The state of the cache, the watchlist calls, the scheduler and the history
\* database.
addonVars == <<cacheVars, wlVars, schedVars, histVars>>

\* player.py 36: progress_update_interval, in seconds.
progress_update_interval == 30

\* player.py 37: min_watch_time, in seconds.
min_watch_time == 60

\* No position has been sampled.
NoSample == [where |-> "none", pos |-> 0, duration |-> 0, read |-> FALSE,
             calls |-> 0, marked |-> FALSE]

\* The empty last_sync_time setting; no run of sync_all.
NoTime == -1

\* No scheduler has checked yet.
NoSchedCheck == [who |-> "none", enabled |-> FALSE, interval |-> 0, since |-> 0,
                 in_flight |-> FALSE, started |-> FALSE]

\* sync_history has not been called with a filter.
NoHistSync == [called |-> FALSE, anime_id |-> "", episode |-> 0, stored |-> 0,
               total_items |-> 0, no_match |-> FALSE, processed |-> 0,
               services |-> 0]

\* No watchlist operation has been called.
NoWatchlistCall == [op |-> "none", anime_id |-> "", source |-> "", listed |-> FALSE]

\* No cache file of the key in CACHE_DIR.
NoFile == [exists |-> FALSE, mtime |-> 0, payload |-> 0]

\* cached has not been called.
NoCacheCall == [called |-> FALSE, enabled |-> FALSE, existed |-> FALSE, age |-> 0,
                ttl |-> 0, raised |-> FALSE, fetched |-> FALSE, written |-> FALSE,
                result |-> 0, cached_payload |-> 0]

(***************************************************************************)
(* The library store (library.py): values and pure helpers.                *)
(***************************************************************************)
\* The sources and the anime ids the library is called with.
LibSources == {"anilist"}

AnimeIds == {"1"}

\* The status values given to the library; "None" stands for Python's None.
LibStatuses == {"PLANNING", "WATCHING", "COMPLETED"}

\* library.py 105, 137, 160, 558: anime_key = f"{source}_{anime_id}".
anime_key(source, anime_id) == <<source, anime_id>>

Max(a, b) == IF a >= b THEN a ELSE b

\* A dict with key k set to e, and with key k deleted.
Put(lib, k, e) == [x \in (DOMAIN lib) \cup {k} |-> IF x = k THEN e ELSE lib[x]]

Del(lib, k) == [x \in (DOMAIN lib) \ {k} |-> lib[x]]

\* library.py 108-119: the entry add_to_library creates (score, rewatch_count
\* and notes are stored like status and are left out).
new_entry(anime_id, source, status, progress, total_episodes, t) ==
  [id |-> anime_id, source |-> source, status |-> status, progress |-> progress,
   total_episodes |-> total_episodes, added_at |-> t, updated_at |-> t]

\* updated_entry with added_at set anew, as on creation.
updated_entry_readded(entry, status, progress, total_episodes, t) ==
  [entry EXCEPT !.status = status, !.progress = progress,
                !.total_episodes = total_episodes, !.added_at = t, !.updated_at = t]

\* library.py 121-130: add_to_library on an existing entry: update() of the
\* mutable fields and of updated_at.
updated_entry(entry, status, progress, total_episodes, t) ==
  [entry EXCEPT !.status = status, !.progress = progress,
                !.total_episodes = total_episodes, !.updated_at = t]

\* auto_status with the rule of the overridden mark_episode_watched of
\* library.py 472-476: any progress short of completion means WATCHING.
auto_status_demoting(entry) ==
  IF entry.progress >= entry.total_episodes /\ entry.total_episodes > 0
    THEN "COMPLETED"
    ELSE IF entry.progress > 0 THEN "WATCHING" ELSE entry.status

\* library.py 575-579 (and 196-199): the status after a watch event: COMPLETED
\* once progress reaches a known total, WATCHING instead of PLANNING, and
\* otherwise as it was.
auto_status(entry) ==
  IF entry.progress >= entry.total_episodes /\ entry.total_episodes > 0
    THEN "COMPLETED"
    ELSE IF entry.status = "PLANNING" THEN "WATCHING" ELSE entry.status

\* library.py 571-573, 188-189: progress = max(episode, progress) and
\* total_episodes = total_episodes or the stored one.
watched_entry(entry, episode, total_episodes, t) ==
  [entry EXCEPT !.progress = Max(episode, entry.progress),
                !.total_episodes = IF total_episodes # 0 THEN total_episodes
                                     ELSE entry.total_episodes,
                !.updated_at = t]

\* library.py 562-568, 163-168: the event appended to the watch history (its
\* timestamps are left out).
history_event(anime_id, source, episode) ==
  [anime_id |-> anime_id, source |-> source, episode |-> episode]

\* record_event keeping one event per anime: earlier events of the same anime
\* are dropped.
record_event_replacing(h, ev) ==
  Append(SelectSeq(h, LAMBDA e : ~(e.anime_id = ev.anime_id /\ e.source = ev.source)), ev)

\* library.py 562, 163: self.watch_history['history'].append(...).
record_event(h, ev) == Append(h, ev)

\* library.py 594-598: the episodes with an event in the watch history, the
\* set get_episode_progress calls watched_episodes.
watched_episodes_of(h, anime_id, source) ==
  {h[i].episode : i \in {j \in 1..Len(h) : h[j].anime_id = anime_id /\ h[j].source = source}}

\* The result of a lookup that finds nothing (Python's None).
NotFound == [found |-> FALSE]

\* library.py 514-541: get_anime_status as the class ends up with it. The loop
\* at 526 iterates self.library, the document {'version', 'anime',
\* 'last_updated'}: its items are the key strings, anime.get raises
\* AttributeError on the first of them, and the handler at 539-541 returns None,
\* whatever the library holds. (The dict lookup of 152-155 is rebound by this
\* definition when the class body is executed.)
get_anime_status(lib, anime_id, source) == NotFound

\* A call on the library: the operation and its arguments (0, "" and "None"
\* for the arguments an operation does not take).
Call(op, anime_id, source, episode, total_episodes, status, progress) ==
  [op |-> op, anime_id |-> anime_id, source |-> source, episode |-> episode,
   total_episodes |-> total_episodes, status |-> status, progress |-> progress]

NoCall == Call("none", "", "", 0, 0, "None", 0)

apiVars == <<req_pc, client, max_retries, attempt, hasAuth, req_result, json_error,
             httpCalls, refreshCalls, seen, bodiesSeen, waited>>

(***************************************************************************)
(* Helpers.                                                                *)
(***************************************************************************)
\* sync.py 86-92: the enabled services as a list, in the fixed order.
EnabledList(en) == SelectSeq(ServiceOrder, LAMBDA s : s \in en)

\* sync.py 105-114: total_steps, the number of enabled stage settings.
total_steps(st) == Cardinality(st)

\* sync.py 209-214, 325-329: a fresh service_result; state "absent" stands for
\* a service with no entry in service_results.
NoServiceResult == [state |-> "absent", items_processed |-> 0, items_synced |-> 0]

\* sync.py 42-47, 184-189, 281-286: the results record a stage starts with.
EmptyStageResult ==
  [present |-> TRUE, keys |-> {"total_items", "synced_items", "errors", "service_results"},
   total_items |-> 0, synced_items |-> 0, errors |-> <<>>,
   service_results |-> [s \in Services |-> NoServiceResult]]

\* A stage with no entry in sync_all's results.
NoStageResult ==
  [present |-> FALSE, keys |-> {}, total_items |-> 0, synced_items |-> 0,
   errors |-> <<>>, service_results |-> [s \in Services |-> NoServiceResult]]

NoReturn == [keys |-> {}, error |-> ""]

\* watchlist.py 28-41: get_local_watchlist returns the stored list.
get_watchlist_items == watchlist

\* history.py 138: the default of get_watch_history's limit.
HistoryLimit == 100

\* history.py 138-171: get_watch_history returns the stored events, at most
\* limit of them, and none when the history_enabled setting is off.
get_watch_history(history_enabled) ==
  IF history_enabled
    THEN SubSeq(history, 1, IF Len(history) < HistoryLimit THEN Len(history) ELSE HistoryLimit)
    ELSE <<>>

\* The stored documents, as one value.
Store == <<library, history, watchlist>>

CurStage == StageOrder[stage]

CurService == EnabledList(enabled_services)[svcIdx]

\* sync.py 120-160: after stage k, the next stage's check, or the final
\* progress update once the three stages are past.
AfterStage(k) == IF k < Len(StageOrder) THEN "gate" ELSE "finish"

(***************************************************************************)
(* sync_all (sync.py 68-170).                                              *)
(***************************************************************************)
\* sync_all_start without the two early returns of sync.py 100-102, 116-117.
sync_all_start_unchecked(en, st, cb, preset) ==
  /\ sync_pc = "idle"
  /\ enabled_services' = en
  /\ sync_settings' = st
  /\ has_callback' = cb
  /\ cancel_flag' = preset
  /\ cancelPreset' = preset
  /\ storeAtStart' = Store
  /\ sync_pc' = "gate"
  /\ UNCHANGED <<stage, svcIdx, itemIdx, local_items, service_result, results,
                 sync_return, stagesEntered, callbacks, remoteCalls, visits,
                 cancelStage>>
  /\ UNCHANGED storeVars
  /\ UNCHANGED libVars
  /\ UNCHANGED addonVars
  /\ UNCHANGED playerVars
  /\ UNCHANGED apiVars

\* sync.py 85-117: read the settings; no service or no stage enabled returns
\* an error at once.
sync_all_start(en, st, cb, preset) ==
  /\ sync_pc = "idle"
  /\ enabled_services' = en
  /\ sync_settings' = st
  /\ has_callback' = cb
  /\ cancel_flag' = preset
  /\ cancelPreset' = preset
  /\ storeAtStart' = Store
  /\ IF en = {}
       THEN /\ sync_pc' = "returned"
            /\ sync_return' = [keys |-> {"error"}, error |-> "No services enabled for sync"]
       ELSE IF total_steps(st) = 0
         THEN /\ sync_pc' = "returned"
              /\ sync_return' = [keys |-> {"error"},
                                 error |-> "No sync operations enabled in settings"]
         ELSE /\ sync_pc' = "gate"
              /\ sync_return' = sync_return
  /\ UNCHANGED <<stage, svcIdx, itemIdx, local_items, service_result, results,
                 stagesEntered, callbacks, remoteCalls, visits, cancelStage>>
  /\ UNCHANGED storeVars
  /\ UNCHANGED libVars
  /\ UNCHANGED addonVars
  /\ UNCHANGED playerVars
  /\ UNCHANGED apiVars

\* stage_gate without the is_cancelled() check of sync.py 122, 131, 146.
stage_gate_unchecked ==
  /\ sync_pc = "gate"
  /\ IF CurStage \notin sync_settings
       THEN /\ sync_pc' = AfterStage(stage)
            /\ stage' = IF stage < Len(StageOrder) THEN stage + 1 ELSE stage
       ELSE /\ sync_pc' = "enter"
            /\ stage' = stage
  /\ UNCHANGED <<enabled_services, sync_settings, has_callback, cancel_flag,
                 svcIdx, itemIdx, local_items, service_result, results, sync_return,
                 stagesEntered, callbacks, remoteCalls, visits, cancelStage,
                 cancelPreset, storeAtStart>>
  /\ UNCHANGED storeVars
  /\ UNCHANGED libVars
  /\ UNCHANGED addonVars
  /\ UNCHANGED playerVars
  /\ UNCHANGED apiVars

\* sync.py 121-123, 130-132, 145-147: a disabled stage is skipped; an enabled
\* one raises SyncCancelled (caught at 163-165) when the flag is set.
stage_gate ==
  /\ sync_pc = "gate"
  /\ IF CurStage \notin sync_settings
       THEN /\ sync_pc' = AfterStage(stage)
            /\ stage' = IF stage < Len(StageOrder) THEN stage + 1 ELSE stage
            /\ sync_return' = sync_return
       ELSE IF cancel_flag
         THEN /\ sync_pc' = "returned"
              /\ sync_return' = [keys |-> {"cancelled", "message"}, error |-> ""]
              /\ stage' = stage
         ELSE /\ sync_pc' = "enter"
              /\ sync_return' = sync_return
              /\ stage' = stage
  /\ UNCHANGED <<enabled_services, sync_settings, has_callback, cancel_flag,
                 svcIdx, itemIdx, local_items, service_result, results,
                 stagesEntered, callbacks, remoteCalls, visits, cancelStage,
                 cancelPreset, storeAtStart>>
  /\ UNCHANGED storeVars
  /\ UNCHANGED libVars
  /\ UNCHANGED addonVars
  /\ UNCHANGED playerVars
  /\ UNCHANGED apiVars

\* sync.py 78-80, 166-170: update_progress; an exception of the callback is
\* caught at the top level and becomes an error result.
CallbackRaised ==
  /\ sync_pc' = "returned"
  /\ sync_return' = [keys |-> {"error"}, error |-> "exception"]
  /\ callbacks' = callbacks + 1

\* sync.py 125-126, 172-205: update_progress, then sync_watchlists is called
\* and reads the local watchlist.
sync_watchlists_begin(raises) ==
  /\ sync_pc = "enter"
  /\ CurStage = "watchlist"
  /\ IF has_callback /\ raises
       THEN /\ CallbackRaised
            /\ UNCHANGED <<stagesEntered, results, local_items, svcIdx>>
       ELSE /\ callbacks' = IF has_callback THEN callbacks + 1 ELSE callbacks
            /\ stagesEntered' = Append(stagesEntered, "watchlist")
            /\ local_items' = IF enabled_services = {} THEN <<>> ELSE get_watchlist_items
            /\ results' = [results EXCEPT !["watchlist"] =
                 [EmptyStageResult EXCEPT !.total_items = Len(local_items')]]
            /\ svcIdx' = 1
            /\ sync_pc' = "svc"
            /\ sync_return' = sync_return
  /\ UNCHANGED <<enabled_services, sync_settings, has_callback, cancel_flag, stage,
                 itemIdx, service_result, remoteCalls, visits, cancelStage,
                 cancelPreset, storeAtStart>>
  /\ UNCHANGED storeVars
  /\ UNCHANGED libVars
  /\ UNCHANGED addonVars
  /\ UNCHANGED playerVars
  /\ UNCHANGED apiVars

\* sync.py 134-135, 266-321: update_progress, then sync_history is called and
\* reads the local history (no anime_id filter from sync_all).
sync_history_begin(raises, history_enabled) ==
  /\ sync_pc = "enter"
  /\ CurStage = "history"
  /\ IF has_callback /\ raises
       THEN /\ CallbackRaised
            /\ UNCHANGED <<stagesEntered, results, local_items, svcIdx>>
       ELSE /\ callbacks' = IF has_callback THEN callbacks + 1 ELSE callbacks
            /\ stagesEntered' = Append(stagesEntered, "history")
            /\ local_items' = IF enabled_services = {} THEN <<>>
                                ELSE get_watch_history(history_enabled)
            /\ results' = [results EXCEPT !["history"] =
                 [EmptyStageResult EXCEPT !.total_items = Len(local_items')]]
            /\ svcIdx' = 1
            /\ sync_pc' = "svc"
            /\ sync_return' = sync_return
  /\ UNCHANGED <<enabled_services, sync_settings, has_callback, cancel_flag, stage,
                 itemIdx, service_result, remoteCalls, visits, cancelStage,
                 cancelPreset, storeAtStart>>
  /\ UNCHANGED storeVars
  /\ UNCHANGED libVars
  /\ UNCHANGED addonVars
  /\ UNCHANGED playerVars
  /\ UNCHANGED apiVars

\* sync.py 149-151, 30-50: update_progress, then sync_ratings is called.
sync_ratings_begin(raises) ==
  /\ sync_pc = "enter"
  /\ CurStage = "ratings"
  /\ IF has_callback /\ raises
       THEN /\ CallbackRaised
            /\ UNCHANGED <<stagesEntered, results, local_items, svcIdx>>
       ELSE /\ callbacks' = IF has_callback THEN callbacks + 1 ELSE callbacks
            /\ stagesEntered' = Append(stagesEntered, "ratings")
            /\ local_items' = <<>>
            /\ results' = [results EXCEPT !["ratings"] = EmptyStageResult]
            /\ svcIdx' = 1
            /\ sync_pc' = "svc"
            /\ sync_return' = sync_return
  /\ UNCHANGED <<enabled_services, sync_settings, has_callback, cancel_flag, stage,
                 itemIdx, service_result, remoteCalls, visits, cancelStage,
                 cancelPreset, storeAtStart>>
  /\ UNCHANGED storeVars
  /\ UNCHANGED libVars
  /\ UNCHANGED addonVars
  /\ UNCHANGED playerVars
  /\ UNCHANGED apiVars

\* What a stage's return changes in sync_all: on to the next stage's check.
StageReturned ==
  /\ sync_pc' = AfterStage(stage)
  /\ stage' = IF stage < Len(StageOrder) THEN stage + 1 ELSE stage

\* sync_watchlists_service with the fetch outside the per-service try of
\* sync.py 216, 252-256: the exception leaves the stage and ends sync_all.
sync_watchlists_service_abort(raises) ==
  /\ sync_pc = "svc"
  /\ CurStage = "watchlist"
  /\ svcIdx <= Len(EnabledList(enabled_services))
  /\ remoteCalls' = remoteCalls + 1
  /\ IF raises
       THEN /\ sync_pc' = "returned"
            /\ sync_return' = [keys |-> {"error"}, error |-> "exception"]
            /\ UNCHANGED <<results, svcIdx, itemIdx, service_result>>
       ELSE /\ service_result' = [NoServiceResult EXCEPT !.state = "ok"]
            /\ itemIdx' = 1
            /\ sync_pc' = "item"
            /\ UNCHANGED <<results, svcIdx, sync_return>>
  /\ UNCHANGED <<enabled_services, sync_settings, has_callback, cancel_flag, stage,
                 local_items, stagesEntered, callbacks, visits,
                 cancelStage, cancelPreset, storeAtStart>>
  /\ UNCHANGED storeVars
  /\ UNCHANGED libVars
  /\ UNCHANGED addonVars
  /\ UNCHANGED playerVars
  /\ UNCHANGED apiVars

\* sync.py 208-225, 252-256: the next service of sync_watchlists: its remote
\* watchlist is fetched; an exception of the fetch is recorded and the loop
\* goes on with the next service.
sync_watchlists_service(raises) ==
  /\ sync_pc = "svc"
  /\ CurStage = "watchlist"
  /\ svcIdx <= Len(EnabledList(enabled_services))
  /\ remoteCalls' = remoteCalls + 1
  /\ IF raises
       THEN /\ results' = [results EXCEPT
                 !["watchlist"].errors = Append(@, CurService),
                 !["watchlist"].service_results[CurService] =
                     [NoServiceResult EXCEPT !.state = "error"]]
            /\ svcIdx' = svcIdx + 1
            /\ UNCHANGED <<sync_pc, itemIdx, service_result>>
       ELSE /\ service_result' = [NoServiceResult EXCEPT !.state = "ok"]
            /\ itemIdx' = 1
            /\ sync_pc' = "item"
            /\ UNCHANGED <<results, svcIdx>>
  /\ UNCHANGED <<enabled_services, sync_settings, has_callback, cancel_flag, stage,
                 local_items, sync_return, stagesEntered, callbacks, visits,
                 cancelStage, cancelPreset, storeAtStart>>
  /\ UNCHANGED storeVars
  /\ UNCHANGED libVars
  /\ UNCHANGED addonVars
  /\ UNCHANGED playerVars
  /\ UNCHANGED apiVars

\* sync_watchlists_item with a cancellation check inside the item loop: the
\* rest of the stage is abandoned once the flag is set.
sync_watchlists_item_cancellable ==
  /\ sync_pc = "item"
  /\ CurStage = "watchlist"
  /\ IF cancel_flag
       THEN /\ sync_pc' = "returned"
            /\ sync_return' = [keys |-> {"cancelled", "message"}, error |-> ""]
            /\ UNCHANGED <<service_result, visits, itemIdx, svcIdx, results>>
       ELSE IF itemIdx <= Len(local_items)
         THEN /\ service_result' = [service_result EXCEPT !.items_processed = @ + 1]
              /\ visits' = [visits EXCEPT !["watchlist"][CurService][itemIdx] = @ + 1]
              /\ itemIdx' = itemIdx + 1
              /\ UNCHANGED <<sync_pc, svcIdx, results, sync_return>>
         ELSE /\ results' = [results EXCEPT
                   !["watchlist"].synced_items = @ + service_result.items_processed,
                   !["watchlist"].service_results[CurService] = service_result]
              /\ svcIdx' = svcIdx + 1
              /\ sync_pc' = "svc"
              /\ UNCHANGED <<service_result, visits, itemIdx, sync_return>>
  /\ UNCHANGED <<enabled_services, sync_settings, has_callback, cancel_flag, stage,
                 local_items, stagesEntered, callbacks, remoteCalls,
                 cancelStage, cancelPreset, storeAtStart>>
  /\ UNCHANGED storeVars
  /\ UNCHANGED libVars
  /\ UNCHANGED addonVars
  /\ UNCHANGED playerVars
  /\ UNCHANGED apiVars

\* sync.py 228-250: one item of the local watchlist is counted; after the last
\* one the service's count is added to synced_items and its record stored.
sync_watchlists_item ==
  /\ sync_pc = "item"
  /\ CurStage = "watchlist"
  /\ IF itemIdx <= Len(local_items)
       THEN /\ service_result' = [service_result EXCEPT !.items_processed = @ + 1]
            /\ visits' = [visits EXCEPT !["watchlist"][CurService][itemIdx] = @ + 1]
            /\ itemIdx' = itemIdx + 1
            /\ UNCHANGED <<sync_pc, svcIdx, results>>
       ELSE /\ results' = [results EXCEPT
                 !["watchlist"].synced_items = @ + service_result.items_processed,
                 !["watchlist"].service_results[CurService] = service_result]
            /\ svcIdx' = svcIdx + 1
            /\ sync_pc' = "svc"
            /\ UNCHANGED <<service_result, visits, itemIdx>>
  /\ UNCHANGED <<enabled_services, sync_settings, has_callback, cancel_flag, stage,
                 local_items, sync_return, stagesEntered, callbacks, remoteCalls,
                 cancelStage, cancelPreset, storeAtStart>>
  /\ UNCHANGED storeVars
  /\ UNCHANGED libVars
  /\ UNCHANGED addonVars
  /\ UNCHANGED playerVars
  /\ UNCHANGED apiVars

\* sync.py 258, 126-127: sync_watchlists returns its results.
sync_watchlists_return ==
  /\ sync_pc = "svc"
  /\ CurStage = "watchlist"
  /\ svcIdx > Len(EnabledList(enabled_services))
  /\ StageReturned
  /\ UNCHANGED <<enabled_services, sync_settings, has_callback, cancel_flag,
                 svcIdx, itemIdx, local_items, service_result, results, sync_return,
                 stagesEntered, callbacks, remoteCalls, visits, cancelStage,
                 cancelPreset, storeAtStart>>
  /\ UNCHANGED storeVars
  /\ UNCHANGED libVars
  /\ UNCHANGED addonVars
  /\ UNCHANGED playerVars
  /\ UNCHANGED apiVars

\* sync.py 324-331: the next service of sync_history; no remote call is made.
sync_history_service ==
  /\ sync_pc = "svc"
  /\ CurStage = "history"
  /\ svcIdx <= Len(EnabledList(enabled_services))
  /\ service_result' = [NoServiceResult EXCEPT !.state = "ok"]
  /\ itemIdx' = 1
  /\ sync_pc' = "item"
  /\ UNCHANGED <<enabled_services, sync_settings, has_callback, cancel_flag, stage,
                 svcIdx, local_items, results, sync_return, stagesEntered, callbacks,
                 remoteCalls, visits, cancelStage, cancelPreset, storeAtStart>>
  /\ UNCHANGED storeVars
  /\ UNCHANGED libVars
  /\ UNCHANGED addonVars
  /\ UNCHANGED playerVars
  /\ UNCHANGED apiVars

\* sync_history_item with the addition of sync.py 362 inside the item loop:
\* the running count is added to synced_items at every item.
sync_history_item_overcount ==
  /\ sync_pc = "item"
  /\ CurStage = "history"
  /\ IF itemIdx <= Len(local_items)
       THEN /\ service_result' = [service_result EXCEPT
                 !.items_processed = @ + 1, !.items_synced = @ + 1]
            /\ visits' = [visits EXCEPT !["history"][CurService][itemIdx] = @ + 1]
            /\ itemIdx' = itemIdx + 1
            /\ results' = [results EXCEPT
                 !["history"].synced_items = @ + service_result'.items_synced]
            /\ UNCHANGED <<sync_pc, svcIdx>>
       ELSE /\ results' = [results EXCEPT
                 !["history"].service_results[CurService] = service_result]
            /\ svcIdx' = svcIdx + 1
            /\ sync_pc' = "svc"
            /\ UNCHANGED <<service_result, visits, itemIdx>>
  /\ UNCHANGED <<enabled_services, sync_settings, has_callback, cancel_flag, stage,
                 local_items, sync_return, stagesEntered, callbacks, remoteCalls,
                 cancelStage, cancelPreset, storeAtStart>>
  /\ UNCHANGED storeVars
  /\ UNCHANGED libVars
  /\ UNCHANGED addonVars
  /\ UNCHANGED playerVars
  /\ UNCHANGED apiVars

\* sync.py 333-363: one history item is counted as processed and synced; after
\* the last one the service's count is added to synced_items.
sync_history_item ==
  /\ sync_pc = "item"
  /\ CurStage = "history"
  /\ IF itemIdx <= Len(local_items)
       THEN /\ service_result' = [service_result EXCEPT
                 !.items_processed = @ + 1, !.items_synced = @ + 1]
            /\ visits' = [visits EXCEPT !["history"][CurService][itemIdx] = @ + 1]
            /\ itemIdx' = itemIdx + 1
            /\ UNCHANGED <<sync_pc, svcIdx, results>>
       ELSE /\ results' = [results EXCEPT
                 !["history"].synced_items = @ + service_result.items_synced,
                 !["history"].service_results[CurService] = service_result]
            /\ svcIdx' = svcIdx + 1
            /\ sync_pc' = "svc"
            /\ UNCHANGED <<service_result, visits, itemIdx>>
  /\ UNCHANGED <<enabled_services, sync_settings, has_callback, cancel_flag, stage,
                 local_items, sync_return, stagesEntered, callbacks, remoteCalls,
                 cancelStage, cancelPreset, storeAtStart>>
  /\ UNCHANGED storeVars
  /\ UNCHANGED libVars
  /\ UNCHANGED addonVars
  /\ UNCHANGED playerVars
  /\ UNCHANGED apiVars

\* sync.py 371, 135-142: sync_history returns its results.
sync_history_return ==
  /\ sync_pc = "svc"
  /\ CurStage = "history"
  /\ svcIdx > Len(EnabledList(enabled_services))
  /\ StageReturned
  /\ UNCHANGED <<enabled_services, sync_settings, has_callback, cancel_flag,
                 svcIdx, itemIdx, local_items, service_result, results, sync_return,
                 stagesEntered, callbacks, remoteCalls, visits, cancelStage,
                 cancelPreset, storeAtStart>>
  /\ UNCHANGED storeVars
  /\ UNCHANGED libVars
  /\ UNCHANGED addonVars
  /\ UNCHANGED playerVars
  /\ UNCHANGED apiVars

\* sync.py 52-61: sync_ratings counts one synced item per service.
sync_ratings_service ==
  /\ sync_pc = "svc"
  /\ CurStage = "ratings"
  /\ svcIdx <= Len(EnabledList(enabled_services))
  /\ results' = [results EXCEPT !["ratings"].synced_items = @ + 1]
  /\ svcIdx' = svcIdx + 1
  /\ UNCHANGED <<sync_pc, enabled_services, sync_settings, has_callback, cancel_flag,
                 stage, itemIdx, local_items, service_result, sync_return,
                 stagesEntered, callbacks, remoteCalls, visits, cancelStage,
                 cancelPreset, storeAtStart>>
  /\ UNCHANGED storeVars
  /\ UNCHANGED libVars
  /\ UNCHANGED addonVars
  /\ UNCHANGED playerVars
  /\ UNCHANGED apiVars

\* sync.py 63-66, 151-158: sync_ratings returns its results.
sync_ratings_return ==
  /\ sync_pc = "svc"
  /\ CurStage = "ratings"
  /\ svcIdx > Len(EnabledList(enabled_services))
  /\ StageReturned
  /\ UNCHANGED <<enabled_services, sync_settings, has_callback, cancel_flag,
                 svcIdx, itemIdx, local_items, service_result, results, sync_return,
                 stagesEntered, callbacks, remoteCalls, visits, cancelStage,
                 cancelPreset, storeAtStart>>
  /\ UNCHANGED storeVars
  /\ UNCHANGED libVars
  /\ UNCHANGED addonVars
  /\ UNCHANGED playerVars
  /\ UNCHANGED apiVars

\* sync.py 126, 136-140, 152-157: the keys of sync_all's results: one per stage
\* run, and "error" when a stage's own result carries an "error" key.
ResultKeys ==
  {g \in Stages : results[g].present}
    \cup (IF "error" \in results["history"].keys \/ "error" \in results["ratings"].keys
            THEN {"error"} ELSE {})

\* sync.py 160-161, 166-170: the last progress update, then the results are
\* returned.
sync_all_finish(raises) ==
  /\ sync_pc = "finish"
  /\ IF has_callback /\ raises
       THEN CallbackRaised
       ELSE /\ callbacks' = IF has_callback THEN callbacks + 1 ELSE callbacks
            /\ sync_pc' = "returned"
            /\ sync_return' = [keys |-> ResultKeys, error |-> ""]
  /\ UNCHANGED <<enabled_services, sync_settings, has_callback, cancel_flag, stage,
                 svcIdx, itemIdx, local_items, service_result, results,
                 stagesEntered, remoteCalls, visits, cancelStage, cancelPreset,
                 storeAtStart>>
  /\ UNCHANGED storeVars
  /\ UNCHANGED libVars
  /\ UNCHANGED addonVars
  /\ UNCHANGED playerVars
  /\ UNCHANGED apiVars

\* default.py 369-375: while the sync thread is alive, the main thread sets
\* the flag when the user confirms the cancellation.
cancel_set ==
  /\ sync_pc \notin {"idle", "returned"}
  /\ ~cancel_flag
  /\ cancel_flag' = TRUE
  /\ cancelStage' = IF sync_pc \in {"svc", "item"} THEN CurStage ELSE "boundary"
  /\ UNCHANGED <<sync_pc, enabled_services, sync_settings, has_callback, stage,
                 svcIdx, itemIdx, local_items, service_result, results, sync_return,
                 stagesEntered, callbacks, remoteCalls, visits, cancelPreset,
                 storeAtStart>>
  /\ UNCHANGED storeVars
  /\ UNCHANGED libVars
  /\ UNCHANGED addonVars
  /\ UNCHANGED playerVars
  /\ UNCHANGED apiVars

SyncNext ==
  \/ \E en \in SUBSET Services, st \in SUBSET Stages, cb \in BOOLEAN, preset \in BOOLEAN :
       sync_all_start(en, st, cb, preset)
  \/ stage_gate
  \/ \E raises \in BOOLEAN : sync_watchlists_begin(raises)
  \/ \E raises \in BOOLEAN : sync_watchlists_service(raises)
  \/ sync_watchlists_item
  \/ sync_watchlists_return
  \/ \E raises \in BOOLEAN, he \in BOOLEAN : sync_history_begin(raises, he)
  \/ sync_history_service
  \/ sync_history_item
  \/ sync_history_return
  \/ \E raises \in BOOLEAN : sync_ratings_begin(raises)
  \/ sync_ratings_service
  \/ sync_ratings_return
  \/ \E raises \in BOOLEAN : sync_all_finish(raises)
  \/ cancel_set

vars == <<library, history, watchlist, watch_history, now, lib_return, lastOp,
          repeated, sync_pc, enabled_services, sync_settings,
          has_callback, cancel_flag, stage, svcIdx, itemIdx, local_items,
          service_result, results, sync_return, stagesEntered, callbacks,
          remoteCalls, visits, cancelStage, cancelPreset, storeAtStart,
          req_pc, client, max_retries, attempt, hasAuth, req_result, json_error,
          httpCalls, refreshCalls, seen, bodiesSeen, waited,
          cache_file, cache_now, remote_version, cache_call,
          player_pc, p_episode, p_total, duration, last_progress_update, play_clock, session, polls, markCalls, reached90, endRuns, sample,
          wl_return, wl_call,
          sched_now, last_sync_time, last_sync_setting, sync_threads, monitor_run, user_run, last_success, sched_check,
          hist_now, hist_op, hist_return, hist_sync>>

\* The documents persisted by earlier sessions, no sync run and no request yet.
InitSync ==
  /\ library = Put(<<>>, anime_key("anilist", "1"),
                   new_entry("1", "anilist", "WATCHING", 1, MaxEpisode, 0))
  /\ watch_history = <<>>
  /\ now = 0
  /\ lib_return = FALSE
  /\ lastOp = NoCall
  /\ repeated = FALSE
  /\ \E n \in 0..MaxItems : watchlist = [i \in 1..n |-> i]
  /\ \E n \in 0..MaxItems : history = [i \in 1..n |-> i]
  /\ sync_pc = "idle"
  /\ enabled_services = {}
  /\ sync_settings = {}
  /\ has_callback = FALSE
  /\ cancel_flag = FALSE
  /\ stage = 1
  /\ svcIdx = 1
  /\ itemIdx = 1
  /\ local_items = <<>>
  /\ service_result = NoServiceResult
  /\ results = [g \in Stages |-> NoStageResult]
  /\ sync_return = NoReturn
  /\ stagesEntered = <<>>
  /\ callbacks = 0
  /\ remoteCalls = 0
  /\ visits = [g \in {"watchlist", "history"} |->
                 [s \in Services |-> [i \in 1..MaxItems |-> 0]]]
  /\ cancelStage = "none"
  /\ cancelPreset = FALSE
  /\ storeAtStart = <<{}, <<>>, <<>>>>
  /\ req_pc = "idle"
  /\ client = "anilist"
  /\ max_retries = 0
  /\ attempt = 0
  /\ hasAuth = FALSE
  /\ req_result = "none"
  /\ json_error = "ValueError"
  /\ httpCalls = 0
  /\ refreshCalls = 0
  /\ seen = {}
  /\ bodiesSeen = {}
  /\ waited = FALSE
  /\ cache_file = NoFile
  /\ cache_now = 0
  /\ remote_version = 0
  /\ cache_call = NoCacheCall
  /\ player_pc = "idle"
  /\ p_episode = 1
  /\ p_total = 0
  /\ duration = 0
  /\ last_progress_update = 0
  /\ play_clock = progress_update_interval
  /\ session = 0
  /\ polls = 0
  /\ markCalls = 0
  /\ reached90 = FALSE
  /\ endRuns = 0
  /\ sample = NoSample
  /\ wl_return = FALSE
  /\ wl_call = NoWatchlistCall
  /\ sched_now = MaxInterval
  /\ last_sync_time = 0
  /\ last_sync_setting = NoTime
  /\ sync_threads = {}
  /\ monitor_run = NoTime
  /\ user_run = NoTime
  /\ last_success = 0
  /\ sched_check = NoSchedCheck
  /\ hist_now = 0
  /\ hist_op = "none"
  /\ hist_return = FALSE
  /\ hist_sync = NoHistSync

SpecSync == InitSync /\ [][SyncNext]_vars

(***************************************************************************)
(* Properties of the synchronization engine, checked under SpecSync.       *)
(***************************************************************************)
SyncReturned == sync_pc = "returned"

Cancelled == "cancelled" \in sync_return.keys

\* The position of a stage in the order the specification gives.
Rank(g) == CASE g = "watchlist" -> 1 [] g = "history" -> 2 [] g = "ratings" -> 3

\* A stage function was called and has returned to sync_all.
StageDone(g) ==
  /\ results[g].present
  /\ \/ stage > Rank(g)
     \/ sync_pc \in {"finish", "returned"}

\* Every service of the stage was gone through to its end.
StageComplete(g) ==
  IF g = "ratings"
    THEN results[g].synced_items = Cardinality(enabled_services)
    ELSE \A s \in enabled_services :
           /\ results[g].service_results[s].state \in {"ok", "error"}
           /\ results[g].service_results[s].state = "ok" =>
                /\ results[g].service_results[s].items_processed = results[g].total_items
                /\ \A i \in 1..results[g].total_items : visits[g][s][i] = 1

\* C1 as stated: a run started with the flag set, with a stage enabled, returns
\* cancelled = true, runs no stage and makes no remote call.
C1_Original ==
  (SyncReturned /\ cancelPreset /\ sync_settings # {}) =>
     (Cancelled /\ stagesEntered = <<>> /\ remoteCalls = 0)

\* C1 (amended): sync_all invoked with cancel_flag already set, with at least
\* one service and at least one stage enabled, runs no stage, makes no remote
\* call and no progress callback, and returns cancelled = true and no error.
C1_CancelledBeforeFirstStage ==
  cancelPreset =>
    /\ stagesEntered = <<>>
    /\ remoteCalls = 0
    /\ (SyncReturned /\ enabled_services # {} /\ sync_settings # {}) =>
         /\ sync_return.keys = {"cancelled", "message"}
         /\ callbacks = 0

C1_Witness ==
  /\ SyncReturned
  /\ cancelPreset
  /\ Cancelled
  /\ Len(watchlist) > 0
  /\ "watchlist" \in sync_settings

\* C2: with no service enabled, or with no stage enabled, sync_all returns at
\* once with an error result (the no-services message in the first case): no
\* stage runs, the progress callback is never called, no remote call is made
\* and the library, the history log and the watchlist are as they were.
C2_NoServicesNoOp ==
  (sync_pc # "idle" /\ (enabled_services = {} \/ sync_settings = {})) =>
    /\ SyncReturned
    /\ sync_return.keys = {"error"}
    /\ enabled_services = {} => sync_return.error = "No services enabled for sync"
    /\ stagesEntered = <<>>
    /\ callbacks = 0
    /\ remoteCalls = 0
    /\ \A g \in Stages : ~results[g].present
    /\ Store = storeAtStart

C2_Witness ==
  /\ SyncReturned
  /\ enabled_services = {}
  /\ sync_settings = Stages
  /\ has_callback
  /\ Len(watchlist) > 0
  /\ sync_return.error = "No services enabled for sync"

\* C3: the stages of a run are entered in the order watchlist, history,
\* ratings, each at most once and only if its setting is enabled, and the
\* result of the run is exactly one of cancelled, error, or the results of
\* all the enabled stages.
C3_StageOrder ==
  /\ \A i \in 1..Len(stagesEntered) : stagesEntered[i] \in sync_settings
  /\ \A i, j \in 1..Len(stagesEntered) :
       i < j => Rank(stagesEntered[i]) < Rank(stagesEntered[j])
  /\ sync_pc \in {"svc", "item"} =>
       /\ stagesEntered # <<>>
       /\ stagesEntered[Len(stagesEntered)] = CurStage
  /\ SyncReturned =>
       \/ sync_return.keys = {"cancelled", "message"}
       \/ sync_return.keys = {"error"}
       \/ /\ sync_return.keys = sync_settings
          /\ {stagesEntered[i] : i \in 1..Len(stagesEntered)} = sync_settings
          /\ \A g \in sync_settings : StageComplete(g)

C3_Witness ==
  /\ SyncReturned
  /\ stagesEntered = <<"watchlist", "history", "ratings">>
  /\ sync_return.keys = Stages

\* A stage enabled after stage g.
LaterEnabled(g) == \E h \in sync_settings : Rank(h) > Rank(g)

\* C4 as stated: a run whose flag was set while a stage was running returns
\* cancelled = true.
C4_Original ==
  (SyncReturned /\ cancelStage \in Stages) => Cancelled

\* C4 (amended): when another thread sets cancel_flag while a stage is
\* running, that stage still processes all of its items for all services and
\* no stage is entered afterwards; the run returns cancelled = true when an
\* enabled stage follows the running one, and otherwise (the flag was set
\* during the last enabled stage) it is not cancelled and ends as it would
\* have without the flag.
C4_CancelAtStageBoundary ==
  cancelStage \in Stages =>
    /\ stagesEntered # <<>>
    /\ stagesEntered[Len(stagesEntered)] = cancelStage
    /\ SyncReturned =>
         /\ StageComplete(cancelStage)
         /\ LaterEnabled(cancelStage) => sync_return.keys = {"cancelled", "message"}
         /\ ~LaterEnabled(cancelStage) => ~Cancelled

C4_Witness ==
  /\ SyncReturned
  /\ cancelStage = "watchlist"
  /\ Cancelled
  /\ Cardinality(enabled_services) >= 2
  /\ results["watchlist"].total_items >= 2
  /\ results["watchlist"].synced_items >= 2

\* The services of a stage's error list.
ErrorServices(g) == {results[g].errors[i] : i \in 1..Len(results[g].errors)}

\* C5: a failure while syncing one service does not end the stage: once the
\* stage has returned, every enabled service was visited (each remote
\* watchlist was asked for), the failed ones are exactly those in the stage's
\* error list and marked in service_results, and the stage has handed a
\* result record to sync_all, which did not end in an error because of it.
C5_PartialFailure ==
  \A g \in {"watchlist", "history"} :
    /\ results[g].present =>
         /\ ErrorServices(g) =
              {s \in Services : results[g].service_results[s].state = "error"}
         /\ Len(results[g].errors) = Cardinality(ErrorServices(g))
         /\ ErrorServices(g) \subseteq enabled_services
    /\ StageDone(g) =>
         /\ \A s \in enabled_services :
              results[g].service_results[s].state \in {"ok", "error"}
         /\ g = "watchlist" => remoteCalls = Cardinality(enabled_services)
         /\ results[g].keys = {"total_items", "synced_items", "errors", "service_results"}

C5_Witness ==
  /\ StageDone("watchlist")
  /\ results["watchlist"].service_results["anilist"].state = "error"
  /\ results["watchlist"].service_results["mal"].state = "ok"
  /\ results["watchlist"].service_results["trakt"].state = "error"
  /\ results["watchlist"].service_results["mal"].items_processed >= 2

\* C6: in the watchlist stage and in the history stage each local item is
\* visited at most once per enabled service and never for a disabled one, and
\* synced_items is at most total_items times the number of enabled services,
\* in every state of the run.
C6_VisitOncePerService ==
  \A g \in {"watchlist", "history"} :
    /\ \A s \in Services : \A i \in 1..MaxItems :
         /\ visits[g][s][i] <= 1
         /\ visits[g][s][i] = 1 => (s \in enabled_services /\ i <= results[g].total_items)
    /\ results[g].synced_items <= results[g].total_items * Cardinality(enabled_services)

C6_Witness ==
  /\ StageDone("history")
  /\ Cardinality(enabled_services) = 3
  /\ results["history"].total_items >= 2
  /\ results["history"].synced_items = results["history"].total_items * 3
  /\ \A s \in Services : visits["history"][s][2] = 1

(***************************************************************************)
(* The authenticated request operations of the remote service clients      *)
(* (api.py: _anilist_query 407-538, _mal_request 569-687, _trakt_request   *)
(* 718-837).                                                               *)
(***************************************************************************)
\* What the server does with one HTTP request: a status, or 0 for no response
\* at all (timeout, connection error: a RequestException that is no HTTPError).
Statuses == {0, 200, 204, 401, 404, 429, 500}

\* The body of a response: JSON with data, JSON with a top-level "errors"
\* array, or no JSON at all.
Bodies == {"data", "errors", "malformed"}

\* What response.json() is given: a 204 response has no body.
JsonOf(status, body) == IF status = 204 THEN "malformed" ELSE body

\* The state of the request as one loop iteration leaves it.
Going(a, auth, refreshes) ==
  [pc |-> "loop", attempt |-> a, hasAuth |-> auth, refreshCalls |-> refreshes,
   result |-> "none"]

Ended(a, auth, refreshes, res) ==
  [pc |-> "returned", attempt |-> a, hasAuth |-> auth, refreshCalls |-> refreshes,
   result |-> res]

Escaped(a, auth, refreshes) ==
  [pc |-> "raised", attempt |-> a, hasAuth |-> auth, refreshCalls |-> refreshes,
   result |-> "raised"]

\* api.py 514-535, 656-681: response.json() failed. With a requests whose
\* JSONDecodeError is a RequestException the first handler takes it and the
\* loop goes on; otherwise the ValueError handler breaks, and None is returned.
JsonFailed(a, auth, refreshes) ==
  IF json_error = "RequestException"
    THEN Going(a + 1, auth, refreshes)
    ELSE Ended(a, auth, refreshes, "null")

\* AnilistStep without the check of api.py 494 for a top-level "errors"
\* array: such a response is returned like any parsed result.
AnilistStep_errors_returned(status, body, refreshed) ==
  LET refreshes == IF status = 401 /\ attempt = 0 THEN refreshCalls + 1 ELSE refreshCalls
      json == JsonOf(status, body)
  IN  IF status = 0
        \* 514-527: no response: count the attempt and go on
        THEN Going(attempt + 1, hasAuth, refreshCalls)
      ELSE IF status = 429
        \* 467-471: wait and continue; attempt is not advanced
        THEN Going(attempt, hasAuth, refreshCalls)
      ELSE IF status = 401 /\ attempt = 0 /\ refreshed
        \* 474-481: refreshed, retry with the new token
        THEN Going(attempt + 1, TRUE, refreshes)
      ELSE IF status >= 400 /\ status < 500 /\ status \notin {401, 429}
        \* 484-485, 520-521: raise_for_status, the handler breaks
        THEN Ended(attempt, hasAuth, refreshes, "null")
      ELSE IF status >= 500
        \* 488-489, 520: HTTPError built without a response; the handler's
        \* e.response.status_code raises AttributeError out of the function
        THEN Escaped(attempt, hasAuth, refreshes)
      ELSE IF json = "malformed"
        THEN JsonFailed(attempt, hasAuth, refreshes)
        ELSE Ended(attempt, hasAuth, refreshes, "parsed")

\* api.py 448-535: one iteration of _anilist_query's loop.
AnilistStep(status, body, refreshed) ==
  LET refreshes == IF status = 401 /\ attempt = 0 THEN refreshCalls + 1 ELSE refreshCalls
      json == JsonOf(status, body)
  IN  IF status = 0
        \* 514-527: no response: count the attempt and go on
        THEN Going(attempt + 1, hasAuth, refreshCalls)
      ELSE IF status = 429
        \* 467-471: wait and continue; attempt is not advanced
        THEN Going(attempt, hasAuth, refreshCalls)
      ELSE IF status = 401 /\ attempt = 0 /\ refreshed
        \* 474-481: refreshed, retry with the new token
        THEN Going(attempt + 1, TRUE, refreshes)
      ELSE IF status >= 400 /\ status < 500 /\ status \notin {401, 429}
        \* 484-485, 520-521: raise_for_status, the handler breaks
        THEN Ended(attempt, hasAuth, refreshes, "null")
      ELSE IF status >= 500
        \* 488-489, 520: HTTPError built without a response; the handler's
        \* e.response.status_code raises AttributeError out of the function
        THEN Escaped(attempt, hasAuth, refreshes)
      ELSE IF json = "malformed"
        THEN JsonFailed(attempt, hasAuth, refreshes)
      ELSE IF json = "errors"
        \* 494-510: drop the Authorization header, count the attempt
        THEN IF attempt + 1 <= max_retries
               THEN Going(attempt + 1, FALSE, refreshes)
               ELSE Ended(attempt + 1, FALSE, refreshes, "null")
        \* 512
        ELSE Ended(attempt, hasAuth, refreshes, "parsed")

\* RestStep without the break of api.py 664-665: a 4xx response is retried
\* like a 5xx one.
RestStep_retry_client_errors(status, body, refreshed) ==
  LET json == JsonOf(status, body)
  IN  IF status = 0
        \* 656-671: no response: count the retry and go on
        THEN Going(attempt + 1, hasAuth, refreshCalls)
      ELSE IF status = 429
        \* 624-629
        THEN Going(attempt + 1, hasAuth, refreshCalls)
      ELSE IF status = 401 /\ hasAuth
        \* 632-645: refresh; on failure drop the Authorization header
        THEN IF refreshed
               THEN Going(attempt + 1, TRUE, refreshCalls + 1)
               ELSE Going(attempt + 1, FALSE, refreshCalls + 1)
      ELSE IF status >= 400 /\ status < 500
        THEN Going(attempt + 1, hasAuth, refreshCalls)
      ELSE IF status >= 500
        \* 648, 667: raise_for_status, the handler counts the retry
        THEN Going(attempt + 1, hasAuth, refreshCalls)
      ELSE IF status = 204
        \* 651-652
        THEN Ended(attempt, hasAuth, refreshCalls, "empty")
      ELSE IF json = "malformed"
        THEN JsonFailed(attempt, hasAuth, refreshCalls)
        \* 654
        ELSE Ended(attempt, hasAuth, refreshCalls, "parsed")

\* api.py 610-681 (_mal_request) and 760-831 (_trakt_request, the same code):
\* one iteration of the loop.
RestStep(status, body, refreshed) ==
  LET json == JsonOf(status, body)
  IN  IF status = 0
        \* 656-671: no response: count the retry and go on
        THEN Going(attempt + 1, hasAuth, refreshCalls)
      ELSE IF status = 429
        \* 624-629
        THEN Going(attempt + 1, hasAuth, refreshCalls)
      ELSE IF status = 401 /\ hasAuth
        \* 632-645: refresh; on failure drop the Authorization header
        THEN IF refreshed
               THEN Going(attempt + 1, TRUE, refreshCalls + 1)
               ELSE Going(attempt + 1, FALSE, refreshCalls + 1)
      ELSE IF status >= 400 /\ status < 500
        \* 648, 664-665: raise_for_status, the handler breaks
        THEN Ended(attempt, hasAuth, refreshCalls, "null")
      ELSE IF status >= 500
        \* 648, 667: raise_for_status, the handler counts the retry
        THEN Going(attempt + 1, hasAuth, refreshCalls)
      ELSE IF status = 204
        \* 651-652
        THEN Ended(attempt, hasAuth, refreshCalls, "empty")
      ELSE IF json = "malformed"
        THEN JsonFailed(attempt, hasAuth, refreshCalls)
        \* 654
        ELSE Ended(attempt, hasAuth, refreshCalls, "parsed")

\* api.py 464-491: whether _anilist_query reaches response.json() with this
\* response, and the kind of body it is given then.
AnilistParsed(status, body, refreshed) ==
  IF \/ status \in {0, 429}
     \/ status = 401 /\ attempt = 0 /\ refreshed
     \/ status >= 400 /\ status \notin {401, 429}
    THEN {}
    ELSE {JsonOf(status, body)}

\* api.py 624-654: the same for _mal_request / _trakt_request (774-804).
RestParsed(status, body) ==
  IF status = 0 \/ status >= 400 \/ status = 204 THEN {} ELSE {JsonOf(status, body)}

\* api.py 467-471, 523-527: whether _anilist_query calls xbmc.sleep after this
\* response: for a 429, and in the RequestException handler while attempts
\* remain (the handler is left at 520-521 on a 4xx, and never reached past 520
\* on a 5xx).
AnilistSleeps(status, body, refreshed) ==
  IF status = 429 THEN TRUE
  ELSE IF status = 0 THEN attempt + 1 <= max_retries
  ELSE IF AnilistParsed(status, body, refreshed) = {"malformed"}
    THEN json_error = "RequestException" /\ attempt + 1 <= max_retries
  ELSE FALSE

\* api.py 624-629, 667-671 (774-779, 817-821): the same for _mal_request /
\* _trakt_request: for a 429, and in the RequestException handler (no
\* response, a 5xx, a body that is no JSON) while retries remain.
RestSleeps(status, body) ==
  IF status = 429 THEN TRUE
  ELSE IF status = 0 \/ status >= 500 THEN attempt + 1 <= max_retries
  ELSE IF RestParsed(status, body) = {"malformed"}
    THEN json_error = "RequestException" /\ attempt + 1 <= max_retries
  ELSE FALSE

\* One loop iteration sends one HTTP request and leaves the request as `after`;
\* `parsed` is the kind of body given to response.json(), if it was called,
\* and `sleeps` tells whether xbmc.sleep was called after the response.
Iteration(status, after, parsed, sleeps) ==
  /\ httpCalls' = httpCalls + 1
  /\ seen' = seen \cup {status}
  /\ bodiesSeen' = bodiesSeen \cup parsed
  /\ waited' = sleeps
  /\ req_pc' = after.pc
  /\ attempt' = after.attempt
  /\ hasAuth' = after.hasAuth
  /\ refreshCalls' = after.refreshCalls
  /\ req_result' = after.result
  /\ UNCHANGED <<client, max_retries, json_error>>
  /\ UNCHANGED syncVars
  /\ UNCHANGED storeVars
  /\ UNCHANGED libVars
  /\ UNCHANGED addonVars
  /\ UNCHANGED playerVars

\* api.py 425-446: _anilist_query is called; the token, if any, goes into the
\* headers.
anilist_query_start(n, token) ==
  /\ req_pc = "idle"
  /\ client' = "anilist"
  /\ max_retries' = n
  /\ hasAuth' = token
  /\ req_pc' = "loop"
  /\ UNCHANGED <<attempt, req_result, json_error, httpCalls, refreshCalls, seen,
                 bodiesSeen, waited>>
  /\ UNCHANGED syncVars
  /\ UNCHANGED storeVars
  /\ UNCHANGED libVars
  /\ UNCHANGED addonVars
  /\ UNCHANGED playerVars

\* api.py 587-608, 736-758: _mal_request / _trakt_request is called; a disabled
\* service returns None at once.
RestStart(c, n, token, enabled) ==
  /\ req_pc = "idle"
  /\ client' = c
  /\ max_retries' = n
  /\ IF enabled
       THEN /\ hasAuth' = token
            /\ req_pc' = "loop"
            /\ req_result' = req_result
       ELSE /\ hasAuth' = hasAuth
            /\ req_pc' = "returned"
            /\ req_result' = "null"
  /\ UNCHANGED <<attempt, json_error, httpCalls, refreshCalls, seen, bodiesSeen, waited>>
  /\ UNCHANGED syncVars
  /\ UNCHANGED storeVars
  /\ UNCHANGED libVars
  /\ UNCHANGED addonVars
  /\ UNCHANGED playerVars

mal_request_start(n, token, enabled) == RestStart("mal", n, token, enabled)

trakt_request_start(n, token, enabled) == RestStart("trakt", n, token, enabled)

anilist_query_attempt(status, body, refreshed) ==
  /\ req_pc = "loop"
  /\ client = "anilist"
  /\ attempt <= max_retries
  /\ httpCalls < MaxHttpCalls
  /\ Iteration(status, AnilistStep(status, body, refreshed),
               AnilistParsed(status, body, refreshed), AnilistSleeps(status, body, refreshed))

mal_request_attempt(status, body, refreshed) ==
  /\ req_pc = "loop"
  /\ client = "mal"
  /\ attempt <= max_retries
  /\ httpCalls < MaxHttpCalls
  /\ Iteration(status, RestStep(status, body, refreshed),
               RestParsed(status, body), RestSleeps(status, body))

trakt_request_attempt(status, body, refreshed) ==
  /\ req_pc = "loop"
  /\ client = "trakt"
  /\ attempt <= max_retries
  /\ httpCalls < MaxHttpCalls
  /\ Iteration(status, RestStep(status, body, refreshed),
               RestParsed(status, body), RestSleeps(status, body))

\* api.py 448, 537-538 (610, 683-687; 760, 833-837): the loop's condition
\* fails and None is returned.
request_exhausted ==
  /\ req_pc = "loop"
  /\ attempt > max_retries
  /\ req_pc' = "returned"
  /\ req_result' = "null"
  /\ UNCHANGED <<client, max_retries, attempt, hasAuth, json_error, httpCalls,
                 refreshCalls, seen, bodiesSeen, waited>>
  /\ UNCHANGED syncVars
  /\ UNCHANGED storeVars
  /\ UNCHANGED libVars
  /\ UNCHANGED addonVars
  /\ UNCHANGED playerVars

ApiNext ==
  \/ \E n \in 0..MaxRetries, token \in BOOLEAN : anilist_query_start(n, token)
  \/ \E n \in 0..MaxRetries, token \in BOOLEAN, enabled \in BOOLEAN :
       mal_request_start(n, token, enabled)
  \/ \E n \in 0..MaxRetries, token \in BOOLEAN, enabled \in BOOLEAN :
       trakt_request_start(n, token, enabled)
  \/ \E status \in Statuses, body \in Bodies, refreshed \in BOOLEAN :
       anilist_query_attempt(status, body, refreshed)
  \/ \E status \in Statuses, body \in Bodies, refreshed \in BOOLEAN :
       mal_request_attempt(status, body, refreshed)
  \/ \E status \in Statuses, body \in Bodies, refreshed \in BOOLEAN :
       trakt_request_attempt(status, body, refreshed)
  \/ request_exhausted

\* No request yet; the installed requests library raises either kind of
\* exception from response.json().
InitApi ==
  /\ library = <<>>
  /\ watch_history = <<>>
  /\ now = 0
  /\ lib_return = FALSE
  /\ lastOp = NoCall
  /\ repeated = FALSE
  /\ watchlist = <<>>
  /\ history = <<>>
  /\ sync_pc = "idle"
  /\ enabled_services = {}
  /\ sync_settings = {}
  /\ has_callback = FALSE
  /\ cancel_flag = FALSE
  /\ stage = 1
  /\ svcIdx = 1
  /\ itemIdx = 1
  /\ local_items = <<>>
  /\ service_result = NoServiceResult
  /\ results = [g \in Stages |-> NoStageResult]
  /\ sync_return = NoReturn
  /\ stagesEntered = <<>>
  /\ callbacks = 0
  /\ remoteCalls = 0
  /\ visits = [g \in {"watchlist", "history"} |->
                 [s \in Services |-> [i \in 1..MaxItems |-> 0]]]
  /\ cancelStage = "none"
  /\ cancelPreset = FALSE
  /\ storeAtStart = <<{}, <<>>, <<>>>>
  /\ req_pc = "idle"
  /\ client = "anilist"
  /\ max_retries = 0
  /\ attempt = 0
  /\ hasAuth = FALSE
  /\ req_result = "none"
  /\ json_error \in {"ValueError", "RequestException"}
  /\ httpCalls = 0
  /\ refreshCalls = 0
  /\ seen = {}
  /\ bodiesSeen = {}
  /\ waited = FALSE
  /\ cache_file = NoFile
  /\ cache_now = 0
  /\ remote_version = 0
  /\ cache_call = NoCacheCall
  /\ player_pc = "idle"
  /\ p_episode = 1
  /\ p_total = 0
  /\ duration = 0
  /\ last_progress_update = 0
  /\ play_clock = progress_update_interval
  /\ session = 0
  /\ polls = 0
  /\ markCalls = 0
  /\ reached90 = FALSE
  /\ endRuns = 0
  /\ sample = NoSample
  /\ wl_return = FALSE
  /\ wl_call = NoWatchlistCall
  /\ sched_now = MaxInterval
  /\ last_sync_time = 0
  /\ last_sync_setting = NoTime
  /\ sync_threads = {}
  /\ monitor_run = NoTime
  /\ user_run = NoTime
  /\ last_success = 0
  /\ sched_check = NoSchedCheck
  /\ hist_now = 0
  /\ hist_op = "none"
  /\ hist_return = FALSE
  /\ hist_sync = NoHistSync

SpecApi == InitApi /\ [][ApiNext]_vars

(***************************************************************************)
(* Properties of the request operations, checked under SpecApi.            *)
(***************************************************************************)
RequestOver == req_pc \in {"returned", "raised"}

\* C7: against a server that answers every attempt with a 5xx status, a
\* request with max_retries = N makes at most N + 1 HTTP attempts and then
\* returns a null result, for each of the three clients.
C7_RetryCeiling ==
  (seen # {} /\ seen \subseteq {500}) =>
    /\ httpCalls <= max_retries + 1
    /\ RequestOver => req_result = "null"

\* C8: against a server that answers every attempt with 429, a request with
\* max_retries = N makes at most N + 1 attempts and then ends with a null
\* result, for each of the three clients.
C8_RateLimitBounded ==
  (seen # {} /\ seen \subseteq {429}) =>
    /\ httpCalls <= max_retries + 1
    /\ RequestOver => req_result = "null"

\* C9: within one request the credential store's refresh is called at most
\* once, whatever the responses.
C9_SingleRefresh == refreshCalls <= 1

\* C10: whatever the server does (2xx, 4xx, 5xx, no response), the request
\* operation ends by returning a parsed, empty or null result: no exception
\* leaves it.
C10_NeverRaises ==
  /\ req_pc # "raised"
  /\ req_pc = "returned" => req_result \in {"parsed", "empty", "null"}

OnlyGraphQLErrors ==
  /\ client = "anilist"
  /\ seen = {200}
  /\ bodiesSeen = {"errors"}

\* C12 as stated: when every response is HTTP 200 with a top-level "errors"
\* array, the AniList request makes exactly two attempts, whatever
\* max_retries is, and returns null.
C12_Original ==
  OnlyGraphQLErrors =>
    /\ httpCalls <= 2
    /\ RequestOver => (httpCalls = 2 /\ req_result = "null")

\* C12: when every response is HTTP 200 with a top-level "errors" array, the
\* AniList request drops the Authorization header after the first one, makes
\* one attempt per unit of max_retries plus one (max_retries + 1 attempts
\* in all), and then returns null.
C12_GraphQLErrorsRetried ==
  OnlyGraphQLErrors =>
    /\ ~hasAuth
    /\ httpCalls <= max_retries + 1
    /\ req_pc = "loop" => httpCalls = attempt
    /\ RequestOver => (httpCalls = max_retries + 1 /\ req_result = "null")

C12_Witness ==
  /\ OnlyGraphQLErrors
  /\ max_retries = 3
  /\ httpCalls = 4
  /\ req_pc = "returned"
  /\ req_result = "null"

(***************************************************************************)
(* The operations of the library store (library.py, class AnimeLibrary, as *)
(* the class body leaves it: where a method is defined twice, the second   *)
(* definition is the method).                                              *)
(***************************************************************************)
\* The fractions of an episode update_episode_progress is given, in tenths.
Fractions == {0, 4}

\* What every library operation leaves alone, and the record of the call.
LibCall(call) ==
  /\ lastOp' = call
  /\ repeated' = (call = lastOp)
  /\ UNCHANGED <<history, watchlist>>
  /\ UNCHANGED syncVars
  /\ UNCHANGED apiVars
  /\ UNCHANGED addonVars

\* library.py 101-132: add_to_library creates the entry or updates its mutable
\* fields, and returns what _save_library returns (False when the file cannot
\* be written; the entry in memory is changed all the same).
add_to_library(anime_id, source, status, progress, total_episodes, io_ok) ==
  LET k == anime_key(source, anime_id)
  IN  /\ library' =
           IF k \notin DOMAIN library
             THEN Put(library, k,
                      new_entry(anime_id, source, status, progress, total_episodes, now))
             ELSE Put(library, k,
                      updated_entry(library[k], status, progress, total_episodes, now))
      /\ lib_return' = io_ok
      /\ UNCHANGED <<watch_history, now>>
      /\ LibCall(Call("add_to_library", anime_id, source, 0, total_episodes, status,
                      progress))

\* library.py 134-140: remove_from_library deletes the entry if it is there.
remove_from_library(anime_id, source, io_ok) ==
  LET k == anime_key(source, anime_id)
  IN  /\ IF k \in DOMAIN library
           THEN /\ library' = Del(library, k)
                /\ lib_return' = io_ok
           ELSE /\ library' = library
                /\ lib_return' = FALSE
      /\ UNCHANGED <<watch_history, now>>
      /\ LibCall(Call("remove_from_library", anime_id, source, 0, 0, "None", 0))

\* library.py 157-207: update_watch_status appends a history event and creates
\* or updates the entry; an explicit status wins over the automatic one. The
\* push to the remote service (204-205) changes nothing here.
update_watch_status(anime_id, source, episode, total_episodes, status, io_ok) ==
  LET k == anime_key(source, anime_id)
      e == watched_entry(library[k], episode, total_episodes, now)
  IN  /\ Len(watch_history) < MaxHistory
      /\ watch_history' = record_event(watch_history,
                                       history_event(anime_id, source, episode))
      /\ library' =
           IF k \notin DOMAIN library
             THEN Put(library, k,
                      new_entry(anime_id, source,
                                IF status # "None" THEN status ELSE "WATCHING",
                                episode, total_episodes, now))
             ELSE Put(library, k,
                      [e EXCEPT !.status = IF status # "None" THEN status
                                             ELSE auto_status(e)])
      /\ lib_return' = io_ok
      /\ UNCHANGED now
      /\ LibCall(Call("update_watch_status", anime_id, source, episode, total_episodes,
                      status, 0))

\* library.py 543-582: mark_episode_watched appends a history event and, if the
\* entry exists, raises its progress to the episode number and sets the
\* automatic status; no entry is created.
mark_episode_watched(anime_id, source, episode, total_episodes, io_ok) ==
  LET k == anime_key(source, anime_id)
      e == watched_entry(library[k], episode, total_episodes, now)
  IN  /\ Len(watch_history) < MaxHistory
      /\ watch_history' = record_event(watch_history,
                                       history_event(anime_id, source, episode))
      /\ library' =
           IF k \in DOMAIN library
             THEN Put(library, k, [e EXCEPT !.status = auto_status(e)])
             ELSE library
      /\ lib_return' = io_ok
      /\ UNCHANGED now
      /\ LibCall(Call("mark_episode_watched", anime_id, source, episode,
                      total_episodes, "None", 0))

\* library.py 380-433: update_episode_progress looks the entry up with
\* get_anime_status and returns False when that gives None (396-398), which
\* it gives for every library; 400-429 are not reached.
update_episode_progress(anime_id, source, episode, progress, total_episodes) ==
  /\ ~get_anime_status(library, anime_id, source).found
  /\ lib_return' = FALSE
  /\ UNCHANGED <<library, watch_history, now>>
  /\ LibCall(Call("update_episode_progress", anime_id, source, episode,
                  total_episodes, "None", progress))

\* Time passes between two calls.
Tick ==
  /\ now < MaxClock
  /\ now' = now + 1
  /\ UNCHANGED <<library, history, watchlist, watch_history, lib_return, lastOp,
                 repeated>>
  /\ UNCHANGED syncVars
  /\ UNCHANGED apiVars
  /\ UNCHANGED addonVars
  /\ UNCHANGED playerVars

LibNext ==
  \/ \E anime_id \in AnimeIds, source \in LibSources, status \in LibStatuses,
        progress \in 0..MaxEpisode, total_episodes \in 0..MaxEpisode, io_ok \in BOOLEAN :
       /\ add_to_library(anime_id, source, status, progress, total_episodes, io_ok)
       /\ UNCHANGED playerVars
  \/ \E anime_id \in AnimeIds, source \in LibSources, io_ok \in BOOLEAN :
       /\ remove_from_library(anime_id, source, io_ok)
       /\ UNCHANGED playerVars
  \/ \E anime_id \in AnimeIds, source \in LibSources, episode \in 1..MaxEpisode,
        total_episodes \in 0..MaxEpisode, status \in LibStatuses \cup {"None"},
        io_ok \in BOOLEAN :
       /\ update_watch_status(anime_id, source, episode, total_episodes, status, io_ok)
       /\ UNCHANGED playerVars
  \/ \E anime_id \in AnimeIds, source \in LibSources, episode \in 1..MaxEpisode,
        total_episodes \in 0..MaxEpisode, io_ok \in BOOLEAN :
       /\ mark_episode_watched(anime_id, source, episode, total_episodes, io_ok)
       /\ UNCHANGED playerVars
  \/ \E anime_id \in AnimeIds, source \in LibSources, episode \in 1..MaxEpisode,
        progress \in Fractions, total_episodes \in 0..MaxEpisode :
       /\ update_episode_progress(anime_id, source, episode, progress, total_episodes)
       /\ UNCHANGED playerVars
  \/ Tick

\* A new profile: library.py 41-46, 72-77 give an empty library and an empty
\* watch history.
InitLib ==
  /\ library = <<>>
  /\ watch_history = <<>>
  /\ now = 0
  /\ lib_return = FALSE
  /\ lastOp = NoCall
  /\ repeated = FALSE
  /\ watchlist = <<>>
  /\ history = <<>>
  /\ sync_pc = "idle"
  /\ enabled_services = {}
  /\ sync_settings = {}
  /\ has_callback = FALSE
  /\ cancel_flag = FALSE
  /\ stage = 1
  /\ svcIdx = 1
  /\ itemIdx = 1
  /\ local_items = <<>>
  /\ service_result = NoServiceResult
  /\ results = [g \in Stages |-> NoStageResult]
  /\ sync_return = NoReturn
  /\ stagesEntered = <<>>
  /\ callbacks = 0
  /\ remoteCalls = 0
  /\ visits = [g \in {"watchlist", "history"} |->
                 [s \in Services |-> [i \in 1..MaxItems |-> 0]]]
  /\ cancelStage = "none"
  /\ cancelPreset = FALSE
  /\ storeAtStart = <<{}, <<>>, <<>>>>
  /\ req_pc = "idle"
  /\ client = "anilist"
  /\ max_retries = 0
  /\ attempt = 0
  /\ hasAuth = FALSE
  /\ req_result = "none"
  /\ json_error = "ValueError"
  /\ httpCalls = 0
  /\ refreshCalls = 0
  /\ seen = {}
  /\ bodiesSeen = {}
  /\ waited = FALSE
  /\ cache_file = NoFile
  /\ cache_now = 0
  /\ remote_version = 0
  /\ cache_call = NoCacheCall
  /\ player_pc = "idle"
  /\ p_episode = 1
  /\ p_total = 0
  /\ duration = 0
  /\ last_progress_update = 0
  /\ play_clock = progress_update_interval
  /\ session = 0
  /\ polls = 0
  /\ markCalls = 0
  /\ reached90 = FALSE
  /\ endRuns = 0
  /\ sample = NoSample
  /\ wl_return = FALSE
  /\ wl_call = NoWatchlistCall
  /\ sched_now = MaxInterval
  /\ last_sync_time = 0
  /\ last_sync_setting = NoTime
  /\ sync_threads = {}
  /\ monitor_run = NoTime
  /\ user_run = NoTime
  /\ last_success = 0
  /\ sched_check = NoSchedCheck
  /\ hist_now = 0
  /\ hist_op = "none"
  /\ hist_return = FALSE
  /\ hist_sync = NoHistSync

SpecLib == InitLib /\ [][LibNext]_vars

(***************************************************************************)
(* Properties of the library store, checked under SpecLib.                 *)
(***************************************************************************)
\* The entry of an anime, and the episodes of it that have a history event.
Entry(anime_id, source) == library[anime_key(source, anime_id)]

InLibrary(anime_id, source) == anime_key(source, anime_id) \in DOMAIN library

Watched(anime_id, source) == watched_episodes_of(watch_history, anime_id, source)

\* The step is a call of operation op on the anime (not the passing of time).
Called(op, anime_id, source) ==
  /\ lastOp'.op = op
  /\ lastOp'.anime_id = anime_id
  /\ lastOp'.source = source
  /\ now' = now

\* C13: when mark_episode_watched is called on an entry with an episode above
\* every episode watched so far and the total is known, the entry's progress
\* does not decrease, and the status becomes COMPLETED exactly when the
\* number of watched episodes reaches the total (at the 95% threshold): not
\* before, and not later.
C13_ProgressMonotone ==
  [][\A anime_id \in AnimeIds, source \in LibSources :
       LET k == anime_key(source, anime_id)
           count == Cardinality(watched_episodes_of(watch_history', anime_id, source))
       IN  ( /\ Called("mark_episode_watched", anime_id, source)
             /\ Len(watch_history') = Len(watch_history) + 1
             /\ InLibrary(anime_id, source)
             /\ \A e \in Watched(anime_id, source) : lastOp'.episode > e
             /\ library'[k].total_episodes > 0 )
           => /\ library'[k].progress >= library[k].progress
              /\ (library[k].status # "COMPLETED" /\ library'[k].status = "COMPLETED")
                   => count * 100 >= 95 * library'[k].total_episodes
              /\ count * 100 >= 95 * library'[k].total_episodes
                   => library'[k].status = "COMPLETED"
    ]_vars

\* An anime with no entry, or with an entry that has no progress and no
\* watched episode yet.
Fresh(anime_id, source) ==
  /\ Watched(anime_id, source) = {}
  /\ InLibrary(anime_id, source) =>
       /\ Entry(anime_id, source).progress = 0
       /\ Entry(anime_id, source).status = "PLANNING"

\* C14: mark_episode_watched with episode = total_episodes on a fresh entry
\* leaves an entry for the anime with progress = 100, status = COMPLETED and
\* watched episodes = {episode}, and the watch history has grown by exactly
\* one event, for that episode.
C14_MarkLastEpisode ==
  [][\A anime_id \in AnimeIds, source \in LibSources :
       LET k == anime_key(source, anime_id)
       IN  ( /\ Called("mark_episode_watched", anime_id, source)
             /\ Len(watch_history') = Len(watch_history) + 1
             /\ lastOp'.episode = lastOp'.total_episodes
             /\ Fresh(anime_id, source) )
           => /\ k \in DOMAIN library'
              /\ library'[k].progress = 100
              /\ library'[k].status = "COMPLETED"
              /\ watched_episodes_of(watch_history', anime_id, source) = {lastOp'.episode}
              /\ watch_history' = Append(watch_history,
                                        history_event(anime_id, source, lastOp'.episode))
    ]_vars

\* C15: update_episode_progress(id, source, e, f, total) on an existing entry
\* whose watched episodes do not contain e returns success, sets the progress
\* to (watched + f) / total * 100 (f in tenths here), changes the status
\* PLANNING to WATCHING, and leaves the watched episodes and the watch history
\* as they were.
C15_PartialProgress ==
  [][\A anime_id \in AnimeIds, source \in LibSources :
       LET k == anime_key(source, anime_id)
       IN  ( /\ Called("update_episode_progress", anime_id, source)
             /\ lastOp' # lastOp
             /\ InLibrary(anime_id, source)
             /\ lastOp'.episode \notin Watched(anime_id, source)
             /\ lastOp'.total_episodes > 0 )
           => /\ lib_return' = TRUE
              /\ k \in DOMAIN library'
              /\ library'[k].progress * lastOp'.total_episodes * 10 =
                   (10 * Cardinality(Watched(anime_id, source)) + lastOp'.progress) * 100
              /\ library[k].status = "PLANNING" => library'[k].status = "WATCHING"
              /\ watch_history' = watch_history
    ]_vars

\* C16: once an entry's status is COMPLETED, a call of mark_episode_watched or
\* of update_episode_progress leaves it COMPLETED.
C16_CompletedIsKept ==
  [][\A anime_id \in AnimeIds, source \in LibSources :
       LET k == anime_key(source, anime_id)
       IN  ( /\ InLibrary(anime_id, source)
             /\ library[k].status = "COMPLETED"
             /\ lastOp'.op \in {"mark_episode_watched", "update_episode_progress"}
             /\ now' = now )
           => /\ k \in DOMAIN library'
              /\ library'[k].status = "COMPLETED"
    ]_vars

C16_Witness ==
  /\ lastOp.op = "mark_episode_watched"
  /\ InLibrary(lastOp.anime_id, lastOp.source)
  /\ Entry(lastOp.anime_id, lastOp.source).status = "COMPLETED"
  /\ Entry(lastOp.anime_id, lastOp.source).progress = lastOp.episode
  /\ Entry(lastOp.anime_id, lastOp.source).progress <
       Entry(lastOp.anime_id, lastOp.source).total_episodes

\* C17: every entry with total_episodes > 0 has progress <= total_episodes,
\* in every state the library operations reach.
C17_ProgressWithinTotal ==
  \A k \in DOMAIN library :
    library[k].total_episodes > 0 => library[k].progress <= library[k].total_episodes

\* C18: as long as an entry exists, no operation removes an episode from its
\* watched episodes.
C18_WatchedOnlyGrows ==
  [][\A anime_id \in AnimeIds, source \in LibSources :
       ( /\ InLibrary(anime_id, source)
         /\ anime_key(source, anime_id) \in DOMAIN library' )
       => Watched(anime_id, source) \subseteq
            watched_episodes_of(watch_history', anime_id, source)
    ]_vars

C18_Witness ==
  /\ lastOp.op = "add_to_library"
  /\ InLibrary(lastOp.anime_id, lastOp.source)
  /\ Cardinality(Watched(lastOp.anime_id, lastOp.source)) = 2

\* C19: a second add_to_library with the arguments of the call before it
\* leaves one entry under the key, with status, progress and total_episodes
\* as after the first call, added_at unchanged and updated_at not smaller.
C19_UpsertIdempotent ==
  [][( /\ lastOp.op = "add_to_library"
       /\ lastOp' = lastOp )
     => LET k == anime_key(lastOp.source, lastOp.anime_id)
        IN  /\ k \in DOMAIN library
            /\ DOMAIN library' = DOMAIN library
            /\ library'[k].id = library[k].id
            /\ library'[k].source = library[k].source
            /\ library'[k].status = library[k].status
            /\ library'[k].progress = library[k].progress
            /\ library'[k].total_episodes = library[k].total_episodes
            /\ library'[k].added_at = library[k].added_at
            /\ library'[k].updated_at >= library[k].updated_at
    ]_vars

C19_Witness ==
  /\ lastOp.op = "add_to_library"
  /\ repeated
  /\ InLibrary(lastOp.anime_id, lastOp.source)
  /\ Entry(lastOp.anime_id, lastOp.source).updated_at >
       Entry(lastOp.anime_id, lastOp.source).added_at

\* C20: get_anime_status(id, source) returns the stored entry when the library
\* holds one for the anime, and None when it holds none.
C20_LookupReflectsStore ==
  \A anime_id \in AnimeIds, source \in LibSources :
    LET found == get_anime_status(library, anime_id, source)
    IN  IF InLibrary(anime_id, source)
          THEN found.found /\ found.anime = Entry(anime_id, source)
          ELSE ~found.found

(***************************************************************************)
(* The response cache (api.py): cached(key, func, ttl) as the module       *)
(* leaves it. The module defines cached twice; the definition at line 108  *)
(* replaces the decorator of line 62. One key is modelled.                 *)
(***************************************************************************)
\* The ttl arguments, in clock units.
TTLs == {1, 2}

\* The state of the sync engine, the request operations and the library.
coreVars == <<storeVars, libVars, syncVars, apiVars>>

\* What the cache leaves alone.
notCacheVars == <<coreVars, playerVars, wlVars, schedVars, histVars>>

\* api.py 108-143: cached(key, func, ttl). With the cache disabled func() is
\* returned. With a cache file of the key present, line 128 evaluates
\* time.time(); api.py imports no module time, so the call raises NameError
\* before the age is compared and before func is called. With no file func()
\* is called, its result is written to the file (a failed write is logged)
\* and returned.
cached(ttl, cache_enabled, write_ok) ==
  LET existed == cache_file.exists
      raised  == cache_enabled /\ existed
      written == cache_enabled /\ ~existed /\ write_ok
  IN  /\ cache_file' = IF written
                          THEN [exists |-> TRUE, mtime |-> cache_now,
                                payload |-> remote_version]
                          ELSE cache_file
      /\ cache_call' = [called |-> TRUE, enabled |-> cache_enabled,
                        existed |-> existed,
                        age |-> cache_now - cache_file.mtime, ttl |-> ttl,
                        raised |-> raised, fetched |-> ~raised,
                        written |-> written,
                        result |-> IF raised THEN 0 ELSE remote_version,
                        cached_payload |-> cache_file.payload]
      /\ UNCHANGED <<cache_now, remote_version>>
      /\ UNCHANGED notCacheVars

\* api.py 145-167: clear_all_caches removes every file of CACHE_DIR; a file
\* that cannot be removed is logged and stays.
clear_all_caches(remove_ok) ==
  /\ cache_file' = IF remove_ok THEN NoFile ELSE cache_file
  /\ UNCHANGED <<cache_now, remote_version, cache_call>>
  /\ UNCHANGED notCacheVars

\* Time passes between two calls of cached.
CacheTick ==
  /\ cache_now < MaxCacheClock
  /\ cache_now' = cache_now + 1
  /\ UNCHANGED <<cache_file, remote_version, cache_call>>
  /\ UNCHANGED notCacheVars

\* The remote service changes what it serves.
remote_change ==
  /\ remote_version < MaxVersion
  /\ remote_version' = remote_version + 1
  /\ UNCHANGED <<cache_file, cache_now, cache_call>>
  /\ UNCHANGED notCacheVars

CacheNext ==
  \/ \E ttl \in TTLs, cache_enabled \in BOOLEAN, write_ok \in BOOLEAN :
       cached(ttl, cache_enabled, write_ok)
  \/ \E remove_ok \in BOOLEAN : clear_all_caches(remove_ok)
  \/ CacheTick
  \/ remote_change

\* An empty cache directory: no call of cached has written a file yet.
InitCache ==
  /\ library = <<>>
  /\ watch_history = <<>>
  /\ now = 0
  /\ lib_return = FALSE
  /\ lastOp = NoCall
  /\ repeated = FALSE
  /\ watchlist = <<>>
  /\ history = <<>>
  /\ sync_pc = "idle"
  /\ enabled_services = {}
  /\ sync_settings = {}
  /\ has_callback = FALSE
  /\ cancel_flag = FALSE
  /\ stage = 1
  /\ svcIdx = 1
  /\ itemIdx = 1
  /\ local_items = <<>>
  /\ service_result = NoServiceResult
  /\ results = [g \in Stages |-> NoStageResult]
  /\ sync_return = NoReturn
  /\ stagesEntered = <<>>
  /\ callbacks = 0
  /\ remoteCalls = 0
  /\ visits = [g \in {"watchlist", "history"} |->
                 [s \in Services |-> [i \in 1..MaxItems |-> 0]]]
  /\ cancelStage = "none"
  /\ cancelPreset = FALSE
  /\ storeAtStart = <<{}, <<>>, <<>>>>
  /\ req_pc = "idle"
  /\ client = "anilist"
  /\ max_retries = 0
  /\ attempt = 0
  /\ hasAuth = FALSE
  /\ req_result = "none"
  /\ json_error = "ValueError"
  /\ httpCalls = 0
  /\ refreshCalls = 0
  /\ seen = {}
  /\ bodiesSeen = {}
  /\ waited = FALSE
  /\ cache_file = NoFile
  /\ cache_now = 0
  /\ remote_version = 0
  /\ cache_call = NoCacheCall
  /\ player_pc = "idle"
  /\ p_episode = 1
  /\ p_total = 0
  /\ duration = 0
  /\ last_progress_update = 0
  /\ play_clock = progress_update_interval
  /\ session = 0
  /\ polls = 0
  /\ markCalls = 0
  /\ reached90 = FALSE
  /\ endRuns = 0
  /\ sample = NoSample
  /\ wl_return = FALSE
  /\ wl_call = NoWatchlistCall
  /\ sched_now = MaxInterval
  /\ last_sync_time = 0
  /\ last_sync_setting = NoTime
  /\ sync_threads = {}
  /\ monitor_run = NoTime
  /\ user_run = NoTime
  /\ last_success = 0
  /\ sched_check = NoSchedCheck
  /\ hist_now = 0
  /\ hist_op = "none"
  /\ hist_return = FALSE
  /\ hist_sync = NoHistSync

SpecCache == InitCache /\ [][CacheNext]_vars

(***************************************************************************)
(* Properties of the response cache, checked under SpecCache.              *)
(***************************************************************************)
\* C21: a call of cached with the cache enabled and an entry written at time
\* t: when the call comes before t + ttl it returns the cached payload and
\* makes no remote call; when it comes after t + ttl it fetches and, the
\* write succeeding, rewrites the entry with the time of the call.
C21_CacheTtlBoundary ==
  (cache_call.called /\ cache_call.enabled /\ cache_call.existed) =>
     /\ cache_call.age < cache_call.ttl =>
          /\ ~cache_call.raised
          /\ ~cache_call.fetched
          /\ cache_call.result = cache_call.cached_payload
     /\ cache_call.age > cache_call.ttl =>
          /\ ~cache_call.raised
          /\ cache_call.fetched

(***************************************************************************)
(* The playback progress tracker (player.py, class AnimePlayer). One       *)
(* session is play_episode, the iterations of the monitoring loop and the  *)
(* end of playback; the library it calls is the library store above.       *)
(***************************************************************************)
\* The total times getTotalTime() reports, in seconds.
Durations == {0, 100, 1000}

\* The positions getTime() reports, in seconds.
Positions == {3, 55, 70, 92, 96, 500}

\* The seconds between two reads of the clock: the one-second sleep of the
\* loop, or playback that went on for a whole update interval.
PollGaps == {1, progress_update_interval}

\* What the tracker leaves alone besides the library.
notPlayerVars == <<history, watchlist, syncVars, apiVars, addonVars>>

\* player.py 91, 174: progress = current_time / duration * 100, compared with
\* a percentage: progress < pct, progress >= pct, progress = pct.
progress_below(pos, dur, pct) == pos * 100 < pct * dur

progress_at_least(pos, dur, pct) == pos * 100 >= pct * dur

progress_is(pos, dur, pct) == pos * 100 = pct * dur

\* player.py 94: int(progress).
int_progress(pos, dur) == (pos * 100) \div dur

\* player.py 94: the loop hands the sample to _update_watch_progress every
\* ten percent and above 90%.
handed_over(pos, dur) ==
  \/ int_progress(pos, dur) % 10 = 0
  \/ pos * 100 > 90 * dur

\* player.py 110: the sample is dropped below 5% or below min_watch_time.
false_start(pos, dur) ==
  \/ progress_below(pos, dur, 5)
  \/ pos < min_watch_time

\* player.py 117-130: the update is due when the interval has passed since
\* the last update, or between 90% and 95%, or exactly at 25, 50 or 75%.
update_needed(pos, dur, t, last) ==
  \/ t - last >= progress_update_interval
  \/ progress_at_least(pos, dur, 90) /\ progress_below(pos, dur, 95)
  \/ \E pct \in {25, 50, 75} : progress_is(pos, dur, pct)

\* The end handler marking whatever the final progress below 90%.
watched_enough_from_zero(pos, dur) == progress_below(pos, dur, 90)

\* player.py 178: 50 <= progress < watch_threshold * 100.
watched_enough(pos, dur) ==
  /\ progress_at_least(pos, dur, 50)
  /\ progress_below(pos, dur, 90)

\* The library is not called in this step.
NoLibraryCall ==
  /\ UNCHANGED <<library, watch_history, now, lib_return, lastOp, repeated>>
  /\ UNCHANGED notPlayerVars

\* player.py 168-187: _on_playback_ended reads the position and the total
\* time (a failing read is logged); with both positive and the progress in
\* [50, 90) it calls LIBRARY.mark_episode_watched.
end_marks(pos, dur, read_ok) ==
  read_ok /\ pos > 0 /\ dur > 0 /\ watched_enough(pos, dur)

\* player.py 39-75, 77-89: play_episode keeps the arguments, adds the anime
\* to the library when get_anime_status finds no entry, starts playback and
\* enters _monitor_playback. The monitor returns at once when nothing is
\* playing; with no positive total time it returns through the finally
\* clause, which runs _on_playback_ended.
play_episode(anime_id, source, episode, total_episodes, io_ok, playing, dur) ==
  /\ player_pc \in {"idle", "stopped", "ended"}
  /\ session < MaxSessions
  /\ session' = session + 1
  /\ IF get_anime_status(library, anime_id, source).found
       THEN NoLibraryCall
       ELSE add_to_library(anime_id, source, "WATCHING", episode - 1,
                           total_episodes, io_ok)
  /\ p_episode' = episode
  /\ p_total' = total_episodes
  /\ duration' = IF playing THEN dur ELSE duration
  /\ player_pc' = IF ~playing THEN "stopped"
                   ELSE IF dur <= 0 THEN "ended" ELSE "monitoring"
  /\ endRuns' = IF playing /\ dur <= 0 THEN 1 ELSE 0
  /\ polls' = 0
  /\ markCalls' = 0
  /\ reached90' = FALSE
  /\ sample' = NoSample
  /\ UNCHANGED <<last_progress_update, play_clock>>

\* player.py 89-98, 104-166: one iteration of the monitoring loop: the
\* position is read; every ten percent and above 90% the sample goes to
\* _update_watch_progress, which drops a false start, drops an update that
\* is not due, and otherwise calls mark_episode_watched from 90% on and
\* update_episode_progress below.
monitor_poll(pos, gap, io_ok) ==
  LET t     == play_clock + gap
      acts  == /\ handed_over(pos, duration)
               /\ ~false_start(pos, duration)
               /\ update_needed(pos, duration, t, last_progress_update)
      marks == acts /\ progress_at_least(pos, duration, 90)
  IN  /\ player_pc = "monitoring"
      /\ polls < MaxPolls
      /\ pos <= duration
      /\ polls' = polls + 1
      /\ play_clock' = t
      /\ last_progress_update' = IF acts THEN t ELSE last_progress_update
      /\ IF marks
           THEN mark_episode_watched("1", "anilist", p_episode, p_total, io_ok)
           ELSE IF acts
             THEN update_episode_progress("1", "anilist", p_episode,
                                          (pos * 10) \div duration, p_total)
             ELSE NoLibraryCall
      /\ markCalls' = IF marks THEN markCalls + 1 ELSE markCalls
      /\ reached90' = (reached90 \/ progress_at_least(pos, duration, 90))
      /\ sample' = [where |-> "poll", pos |-> pos, duration |-> duration,
                    read |-> TRUE, calls |-> IF acts THEN 1 ELSE 0,
                    marked |-> marks]
      /\ UNCHANGED <<player_pc, p_episode, p_total, duration, session, endRuns>>

\* player.py 89, 99-102, 168-187: playback stops (or the loop raises): the
\* loop is left and the finally clause runs _on_playback_ended.
playback_ended(pos, read_ok, io_ok) ==
  LET marks == end_marks(pos, duration, read_ok)
  IN  /\ player_pc = "monitoring"
      /\ pos <= duration
      /\ player_pc' = "ended"
      /\ endRuns' = endRuns + 1
      /\ IF marks
           THEN mark_episode_watched("1", "anilist", p_episode, p_total, io_ok)
           ELSE NoLibraryCall
      /\ markCalls' = IF marks THEN markCalls + 1 ELSE markCalls
      /\ sample' = [where |-> "end", pos |-> pos, duration |-> duration,
                    read |-> read_ok, calls |-> IF marks THEN 1 ELSE 0,
                    marked |-> marks]
      /\ UNCHANGED <<p_episode, p_total, duration, last_progress_update,
                     play_clock, session, polls, reached90>>

\* default.py: the user sets the anime's status from the context menu.
user_sets_status(status, io_ok) ==
  /\ player_pc \in {"idle", "stopped", "ended"}
  /\ add_to_library("1", "anilist", status, 0, 0, io_ok)
  /\ UNCHANGED playerVars

PlayerNext ==
  \/ \E episode \in 1..MaxEpisode, total_episodes \in 0..MaxEpisode,
        io_ok \in BOOLEAN, playing \in BOOLEAN, dur \in Durations :
       play_episode("1", "anilist", episode, total_episodes, io_ok, playing, dur)
  \/ \E pos \in Positions, gap \in PollGaps, io_ok \in BOOLEAN :
       monitor_poll(pos, gap, io_ok)
  \/ \E pos \in Positions, read_ok \in BOOLEAN, io_ok \in BOOLEAN :
       playback_ended(pos, read_ok, io_ok)
  \/ \E status \in LibStatuses, io_ok \in BOOLEAN : user_sets_status(status, io_ok)

\* A new profile and a new AnimePlayer (player.py 23-37): nothing is playing.
InitPlayer ==
  /\ library = <<>>
  /\ watch_history = <<>>
  /\ now = 0
  /\ lib_return = FALSE
  /\ lastOp = NoCall
  /\ repeated = FALSE
  /\ watchlist = <<>>
  /\ history = <<>>
  /\ sync_pc = "idle"
  /\ enabled_services = {}
  /\ sync_settings = {}
  /\ has_callback = FALSE
  /\ cancel_flag = FALSE
  /\ stage = 1
  /\ svcIdx = 1
  /\ itemIdx = 1
  /\ local_items = <<>>
  /\ service_result = NoServiceResult
  /\ results = [g \in Stages |-> NoStageResult]
  /\ sync_return = NoReturn
  /\ stagesEntered = <<>>
  /\ callbacks = 0
  /\ remoteCalls = 0
  /\ visits = [g \in {"watchlist", "history"} |->
                 [s \in Services |-> [i \in 1..MaxItems |-> 0]]]
  /\ cancelStage = "none"
  /\ cancelPreset = FALSE
  /\ storeAtStart = <<{}, <<>>, <<>>>>
  /\ req_pc = "idle"
  /\ client = "anilist"
  /\ max_retries = 0
  /\ attempt = 0
  /\ hasAuth = FALSE
  /\ req_result = "none"
  /\ json_error = "ValueError"
  /\ httpCalls = 0
  /\ refreshCalls = 0
  /\ seen = {}
  /\ bodiesSeen = {}
  /\ waited = FALSE
  /\ cache_file = NoFile
  /\ cache_now = 0
  /\ remote_version = 0
  /\ cache_call = NoCacheCall
  /\ player_pc = "idle"
  /\ p_episode = 1
  /\ p_total = 0
  /\ duration = 0
  /\ last_progress_update = 0
  /\ play_clock = progress_update_interval
  /\ session = 0
  /\ polls = 0
  /\ markCalls = 0
  /\ reached90 = FALSE
  /\ endRuns = 0
  /\ sample = NoSample
  /\ wl_return = FALSE
  /\ wl_call = NoWatchlistCall
  /\ sched_now = MaxInterval
  /\ last_sync_time = 0
  /\ last_sync_setting = NoTime
  /\ sync_threads = {}
  /\ monitor_run = NoTime
  /\ user_run = NoTime
  /\ last_success = 0
  /\ sched_check = NoSchedCheck
  /\ hist_now = 0
  /\ hist_op = "none"
  /\ hist_return = FALSE
  /\ hist_sync = NoHistSync

SpecPlayer == InitPlayer /\ [][PlayerNext]_vars

(***************************************************************************)
(* Properties of the playback progress tracker, checked under SpecPlayer.  *)
(***************************************************************************)
\* The latest sample, as a percentage of the duration, is below pct.
SampleBelow(pct) == sample.pos * 100 < pct * sample.duration

\* C22: a session in which a poll sampled at least 90% of the duration has
\* called LIBRARY.mark_episode_watched exactly once when it is over, the end
\* handler included.
C22_MarkedExactlyOnce ==
  (player_pc = "ended" /\ reached90) => markCalls = 1

C24_PlayCreatesOnlyWhenAbsent ==
  [][session' # session =>
       IF InLibrary("1", "anilist")
         THEN /\ library'[anime_key("anilist", "1")].status = Entry("1", "anilist").status
              /\ library'[anime_key("anilist", "1")].progress = Entry("1", "anilist").progress
         ELSE /\ anime_key("anilist", "1") \in DOMAIN library'
              /\ lastOp'.op = "add_to_library"
              /\ lastOp'.status = "WATCHING"
              /\ lastOp'.progress = p_episode' - 1
              /\ lastOp'.total_episodes = p_total']_vars

\* C30: a sample below 5% of the duration or below the minimum watch time,
\* taken by the monitoring loop or by the end handler, makes the tracker
\* call neither update_episode_progress nor mark_episode_watched.
C30_FalseStartsSuppressed ==
  (/\ sample.where \in {"poll", "end"}
   /\ sample.read
   /\ SampleBelow(5) \/ sample.pos < min_watch_time)
    => sample.calls = 0

(***************************************************************************)
(* The local watchlist (watchlist.py): add, remove and toggle on the       *)
(* document watchlist.json, a list of items.                               *)
(***************************************************************************)
\* The anime ids and the sources the watchlist is called with.
WatchlistIds == {"1", "2"}

WatchlistSources == {"anilist", "mal"}

\* What save_local_watchlist does to the file: it writes the list, or open()
\* fails and the file stays, or the write fails after open() truncated it.
SaveOutcomes == {"saved", "kept", "truncated"}

\* What the watchlist operations leave alone.
notWatchlistVars == <<library, history, libVars, syncVars, apiVars, playerVars,
                      cacheVars, schedVars, histVars>>

\* watchlist.py 70-76: the item add_to_watchlist builds (title, poster and
\* banner, taken from the details, are left out).
watchlist_item(anime_id, source) == [id |-> anime_id, source |-> source]

\* watchlist.py 28-41: get_local_watchlist returns the list of the file, and
\* the empty list when the file is missing or cannot be read.
get_local_watchlist(read_ok) == IF read_ok THEN watchlist ELSE <<>>

\* watchlist.py 43-56: save_local_watchlist: the file afterwards, and the
\* value returned.
saved_file(wl, save) ==
  IF save = "saved" THEN wl ELSE IF save = "kept" THEN watchlist ELSE <<>>

\* The membership test looking at the first item only.
listed_first_only(wl, anime_id, source) ==
  /\ Len(wl) > 0
  /\ wl[1].id = anime_id
  /\ wl[1].source = source

\* watchlist.py 82-84, 111-113: an item of the list has the id and the source.
listed(wl, anime_id, source) ==
  \E i \in 1..Len(wl) : wl[i].id = anime_id /\ wl[i].source = source

\* watchlist.py 100: the list without the items of the id and the source.
RECURSIVE without(_, _, _)
without(wl, anime_id, source) ==
  IF wl = <<>> THEN <<>>
  ELSE IF Head(wl).id = anime_id /\ Head(wl).source = source
    THEN without(Tail(wl), anime_id, source)
    ELSE <<Head(wl)>> \o without(Tail(wl), anime_id, source)

\* watchlist.py 58-90: the file and the value add_to_watchlist leaves: False
\* with no details, True with the anime listed already, else the list with
\* the item appended is saved.
added_file(anime_id, source, details_ok, read_ok, save) ==
  LET wl == get_local_watchlist(read_ok)
  IN  IF ~details_ok THEN <<watchlist, FALSE>>
      ELSE IF listed(wl, anime_id, source) THEN <<watchlist, TRUE>>
      ELSE <<saved_file(Append(wl, watchlist_item(anime_id, source)), save),
             save = "saved">>

\* watchlist.py 92-103: the file and the value remove_from_watchlist leaves.
removed_file(anime_id, source, read_ok, save) ==
  <<saved_file(without(get_local_watchlist(read_ok), anime_id, source), save),
    save = "saved">>

\* The record of a watchlist call.
WatchlistCall(op, anime_id, source) ==
  /\ wl_call' = [op |-> op, anime_id |-> anime_id, source |-> source,
                 listed |-> listed(watchlist, anime_id, source)]
  /\ UNCHANGED notWatchlistVars

add_to_watchlist(anime_id, source, details_ok, read_ok, save) ==
  LET out == added_file(anime_id, source, details_ok, read_ok, save)
  IN  /\ watchlist' = out[1]
      /\ wl_return' = out[2]
      /\ WatchlistCall("add", anime_id, source)

remove_from_watchlist(anime_id, source, read_ok, save) ==
  LET out == removed_file(anime_id, source, read_ok, save)
  IN  /\ watchlist' = out[1]
      /\ wl_return' = out[2]
      /\ WatchlistCall("remove", anime_id, source)

\* watchlist.py 105-124: toggle_watchlist removes the anime when
\* is_in_watchlist finds it and adds it otherwise; the file is read once by
\* the test and once by the operation.
toggle_watchlist(anime_id, source, details_ok, test_read_ok, read_ok, save) ==
  LET out == IF listed(get_local_watchlist(test_read_ok), anime_id, source)
               THEN removed_file(anime_id, source, read_ok, save)
               ELSE added_file(anime_id, source, details_ok, read_ok, save)
  IN  /\ watchlist' = out[1]
      /\ wl_return' = out[2]
      /\ WatchlistCall("toggle", anime_id, source)

WatchlistNext ==
  \/ \E anime_id \in WatchlistIds, source \in WatchlistSources,
        details_ok \in BOOLEAN, read_ok \in BOOLEAN, save \in SaveOutcomes :
       add_to_watchlist(anime_id, source, details_ok, read_ok, save)
  \/ \E anime_id \in WatchlistIds, source \in WatchlistSources,
        read_ok \in BOOLEAN, save \in SaveOutcomes :
       remove_from_watchlist(anime_id, source, read_ok, save)
  \/ \E anime_id \in WatchlistIds, source \in WatchlistSources,
        details_ok \in BOOLEAN, test_read_ok \in BOOLEAN, read_ok \in BOOLEAN,
        save \in SaveOutcomes :
       toggle_watchlist(anime_id, source, details_ok, test_read_ok, read_ok, save)

\* A new profile: no watchlist.json, which get_local_watchlist reads as the empty list.
InitWatchlist ==
  /\ library = <<>>
  /\ watch_history = <<>>
  /\ now = 0
  /\ lib_return = FALSE
  /\ lastOp = NoCall
  /\ repeated = FALSE
  /\ watchlist = <<>>
  /\ history = <<>>
  /\ sync_pc = "idle"
  /\ enabled_services = {}
  /\ sync_settings = {}
  /\ has_callback = FALSE
  /\ cancel_flag = FALSE
  /\ stage = 1
  /\ svcIdx = 1
  /\ itemIdx = 1
  /\ local_items = <<>>
  /\ service_result = NoServiceResult
  /\ results = [g \in Stages |-> NoStageResult]
  /\ sync_return = NoReturn
  /\ stagesEntered = <<>>
  /\ callbacks = 0
  /\ remoteCalls = 0
  /\ visits = [g \in {"watchlist", "history"} |->
                 [s \in Services |-> [i \in 1..MaxItems |-> 0]]]
  /\ cancelStage = "none"
  /\ cancelPreset = FALSE
  /\ storeAtStart = <<{}, <<>>, <<>>>>
  /\ req_pc = "idle"
  /\ client = "anilist"
  /\ max_retries = 0
  /\ attempt = 0
  /\ hasAuth = FALSE
  /\ req_result = "none"
  /\ json_error = "ValueError"
  /\ httpCalls = 0
  /\ refreshCalls = 0
  /\ seen = {}
  /\ bodiesSeen = {}
  /\ waited = FALSE
  /\ cache_file = NoFile
  /\ cache_now = 0
  /\ remote_version = 0
  /\ cache_call = NoCacheCall
  /\ player_pc = "idle"
  /\ p_episode = 1
  /\ p_total = 0
  /\ duration = 0
  /\ last_progress_update = 0
  /\ play_clock = progress_update_interval
  /\ session = 0
  /\ polls = 0
  /\ markCalls = 0
  /\ reached90 = FALSE
  /\ endRuns = 0
  /\ sample = NoSample
  /\ wl_return = FALSE
  /\ wl_call = NoWatchlistCall
  /\ sched_now = MaxInterval
  /\ last_sync_time = 0
  /\ last_sync_setting = NoTime
  /\ sync_threads = {}
  /\ monitor_run = NoTime
  /\ user_run = NoTime
  /\ last_success = 0
  /\ sched_check = NoSchedCheck
  /\ hist_now = 0
  /\ hist_op = "none"
  /\ hist_return = FALSE
  /\ hist_sync = NoHistSync

SpecWatchlist == InitWatchlist /\ [][WatchlistNext]_vars

Intervals == 1..MaxInterval

\* How a run of sync_all ends: with results, with no results, or raising.
RunOutcomes == {"ok", "failed", "raised"}

\* What the schedulers leave alone.
notSchedVars == <<coreVars, playerVars, cacheVars, wlVars, histVars>>

\* The runs of sync_all in flight.
ActiveRuns ==
  Cardinality(sync_threads)
    + (IF monitor_run # NoTime THEN 1 ELSE 0)
    + (IF user_run # NoTime THEN 1 ELSE 0)

\* The record of a scheduler's check.
SchedCheck(who, enabled, interval, started) ==
  [who |-> who, enabled |-> enabled, interval |-> interval,
   since |-> sched_now - last_success, in_flight |-> ActiveRuns > 0,
   started |-> started]

\* The latest successful run, after a run started at t ended with outcome.
success_after(t, outcome) ==
  IF outcome = "ok" /\ t > last_success THEN t ELSE last_success

\* service.py 67-84: check_sync, called by the main loop at every wake:
\* with sync enabled and the interval elapsed since last_sync_time it starts
\* a SyncThread and sets last_sync_time to the current time.
check_sync(sync_enabled, interval) ==
  LET due == sync_enabled /\ sched_now - last_sync_time >= interval
  IN  /\ sync_threads' = IF due THEN sync_threads \cup {sched_now} ELSE sync_threads
      /\ last_sync_time' = IF due THEN sched_now ELSE last_sync_time
      /\ sched_check' = SchedCheck("service", sync_enabled, interval, due)
      /\ UNCHANGED <<sched_now, last_sync_setting, monitor_run, user_run,
                     last_success>>
      /\ UNCHANGED notSchedVars

\* service.py 86-103: _run_sync: the sync_all of a SyncThread returns or
\* raises; the result is logged.
run_sync_finish(t, outcome) ==
  /\ t \in sync_threads
  /\ sync_threads' = sync_threads \ {t}
  /\ last_success' = success_after(t, outcome)
  /\ UNCHANGED <<sched_now, last_sync_time, last_sync_setting, monitor_run,
                 user_run, sched_check>>
  /\ UNCHANGED notSchedVars

\* sync.py 513-535: one pass of monitor_loop: with sync and sync_on_idle
\* enabled it calls sync_all when the setting last_sync_time is empty or
\* more than the interval old.
monitor_loop_check(enabled, interval) ==
  LET due == /\ enabled
             /\ \/ last_sync_setting = NoTime
                \/ sched_now - last_sync_setting > interval
  IN  /\ monitor_run = NoTime
      /\ monitor_run' = IF due THEN sched_now ELSE NoTime
      /\ sched_check' = SchedCheck("monitor", enabled, interval, due)
      /\ UNCHANGED <<sched_now, last_sync_time, last_sync_setting, sync_threads,
                     user_run, last_success>>
      /\ UNCHANGED notSchedVars

\* sync.py 529-530, 534-535, 545-551: the sync_all of the monitor loop
\* returns and the setting last_sync_time is set to the current time,
\* whatever was returned; an exception leaves the setting.
monitor_loop_finish(outcome) ==
  /\ monitor_run # NoTime
  /\ monitor_run' = NoTime
  /\ last_sync_setting' = IF outcome = "raised" THEN last_sync_setting ELSE sched_now
  /\ last_success' = success_after(monitor_run, outcome)
  /\ UNCHANGED <<sched_now, last_sync_time, sync_threads, user_run, sched_check>>
  /\ UNCHANGED notSchedVars

\* default.py 345-366: the sync action starts a thread that runs sync_all.
user_sync_start ==
  /\ user_run = NoTime
  /\ user_run' = sched_now
  /\ UNCHANGED <<sched_now, last_sync_time, last_sync_setting, sync_threads,
                 monitor_run, last_success, sched_check>>
  /\ UNCHANGED notSchedVars

\* default.py 356-399: the sync_all of the sync action ends.
user_sync_finish(outcome) ==
  /\ user_run # NoTime
  /\ user_run' = NoTime
  /\ last_success' = success_after(user_run, outcome)
  /\ UNCHANGED <<sched_now, last_sync_time, last_sync_setting, sync_threads,
                 monitor_run, sched_check>>
  /\ UNCHANGED notSchedVars

\* Time passes.
SchedTick ==
  /\ sched_now < MaxSchedClock
  /\ sched_now' = sched_now + 1
  /\ UNCHANGED <<last_sync_time, last_sync_setting, sync_threads, monitor_run,
                 user_run, last_success, sched_check>>
  /\ UNCHANGED notSchedVars

SchedNext ==
  \/ \E sync_enabled \in BOOLEAN, interval \in Intervals :
       check_sync(sync_enabled, interval)
  \/ \E t \in 0..MaxSchedClock, outcome \in RunOutcomes : run_sync_finish(t, outcome)
  \/ \E enabled \in BOOLEAN, interval \in Intervals :
       monitor_loop_check(enabled, interval)
  \/ \E outcome \in RunOutcomes : monitor_loop_finish(outcome)
  \/ user_sync_start
  \/ \E outcome \in RunOutcomes : user_sync_finish(outcome)
  \/ SchedTick

\* The service has just started (service.py 27-31, 122-129): no run of
\* sync_all, the timers at zero, the clock at least one interval past the epoch.
InitSched ==
  /\ library = <<>>
  /\ watch_history = <<>>
  /\ now = 0
  /\ lib_return = FALSE
  /\ lastOp = NoCall
  /\ repeated = FALSE
  /\ watchlist = <<>>
  /\ history = <<>>
  /\ sync_pc = "idle"
  /\ enabled_services = {}
  /\ sync_settings = {}
  /\ has_callback = FALSE
  /\ cancel_flag = FALSE
  /\ stage = 1
  /\ svcIdx = 1
  /\ itemIdx = 1
  /\ local_items = <<>>
  /\ service_result = NoServiceResult
  /\ results = [g \in Stages |-> NoStageResult]
  /\ sync_return = NoReturn
  /\ stagesEntered = <<>>
  /\ callbacks = 0
  /\ remoteCalls = 0
  /\ visits = [g \in {"watchlist", "history"} |->
                 [s \in Services |-> [i \in 1..MaxItems |-> 0]]]
  /\ cancelStage = "none"
  /\ cancelPreset = FALSE
  /\ storeAtStart = <<{}, <<>>, <<>>>>
  /\ req_pc = "idle"
  /\ client = "anilist"
  /\ max_retries = 0
  /\ attempt = 0
  /\ hasAuth = FALSE
  /\ req_result = "none"
  /\ json_error = "ValueError"
  /\ httpCalls = 0
  /\ refreshCalls = 0
  /\ seen = {}
  /\ bodiesSeen = {}
  /\ waited = FALSE
  /\ cache_file = NoFile
  /\ cache_now = 0
  /\ remote_version = 0
  /\ cache_call = NoCacheCall
  /\ player_pc = "idle"
  /\ p_episode = 1
  /\ p_total = 0
  /\ duration = 0
  /\ last_progress_update = 0
  /\ play_clock = progress_update_interval
  /\ session = 0
  /\ polls = 0
  /\ markCalls = 0
  /\ reached90 = FALSE
  /\ endRuns = 0
  /\ sample = NoSample
  /\ wl_return = FALSE
  /\ wl_call = NoWatchlistCall
  /\ sched_now = MaxInterval
  /\ last_sync_time = 0
  /\ last_sync_setting = NoTime
  /\ sync_threads = {}
  /\ monitor_run = NoTime
  /\ user_run = NoTime
  /\ last_success = 0
  /\ sched_check = NoSchedCheck
  /\ hist_now = 0
  /\ hist_op = "none"
  /\ hist_return = FALSE
  /\ hist_sync = NoHistSync

SpecSched == InitSched /\ [][SchedNext]_vars

(***************************************************************************)
(* Properties of the scheduler, checked under SpecSched.                   *)
(***************************************************************************)
\* C26: at most one execution of sync_all is active at any time, over the
\* SyncThreads of check_sync, the monitor loop and the sync action.
C26_OneSyncInFlight == ActiveRuns <= 1

\* C27: a scheduler that checks with sync enabled does not start sync_all
\* before the interval has elapsed since the latest successful run, and,
\* no run being in flight, starts it once the interval has elapsed since the
\* latest successful run (a failed run does not reset the timer).
C27_TriggerSinceLastSuccess ==
  (sched_check.who # "none" /\ sched_check.enabled) =>
     /\ sched_check.started => sched_check.since >= sched_check.interval
     /\ (~sched_check.in_flight /\ sched_check.since >= sched_check.interval)
          => sched_check.started

(***************************************************************************)
(* The history database (history.py): the table history, one row for each  *)
(* (anime_id, episode, source), and the history sync filtered to one       *)
(* anime and episode (sync.py, sync_history). The table is the variable    *)
(* history, a set of rows.                                                 *)
(***************************************************************************)
\* The anime ids the history is called with.
HistIds == {"1", "2"}

\* What the history operations leave alone.
notHistVars == <<library, watchlist, libVars, syncVars, apiVars, playerVars,
                 cacheVars, wlVars, schedVars>>

\* history.py 29-35: the rows of the table with the key (anime_id, episode,
\* source).
rows_of(rows, anime_id, episode, source) ==
  {r \in rows : r.anime_id = anime_id /\ r.episode = episode /\ r.source = source}

\* history.py 50-56: INSERT OR REPLACE: the row of the key is replaced.
inserted(rows, anime_id, episode, source, t) ==
  (rows \ rows_of(rows, anime_id, episode, source))
    \cup {[anime_id |-> anime_id, episode |-> episode,
           last_watch_time |-> t, source |-> source]}

\* history.py 207-216: the last_watch_time at offset max_entries of the rows
\* in descending order of last_watch_time.
cutoff(rows, max_entries) ==
  CHOOSE t \in {r.last_watch_time : r \in rows} :
    /\ Cardinality({r \in rows : r.last_watch_time > t}) <= max_entries
    /\ Cardinality({r \in rows : r.last_watch_time >= t}) > max_entries

\* history.py 202-223: with more than max_entries rows the rows older than
\* the cutoff are deleted.
pruned(rows, max_entries) ==
  IF Cardinality(rows) > max_entries
    THEN {r \in rows : ~(r.last_watch_time < cutoff(rows, max_entries))}
    ELSE rows

\* history.py 160-167: the dictionary get_watch_history builds of a row.
history_dict(r) ==
  [id |-> r.anime_id, episode |-> r.episode,
   last_watch_time |-> r.last_watch_time, source |-> r.source]

\* dict.get: the value of the key, or None.
dict_get(d, key) == IF key \in DOMAIN d THEN d[key] ELSE "None"

\* history.py 138-171: get_watch_history: the rows as dictionaries (the
\* newest 100; the table of the model is smaller), none with the history
\* disabled or the database failing.
watch_history_dicts(history_enabled, db_ok) ==
  IF history_enabled /\ db_ok THEN {history_dict(r) : r \in history} ELSE {}

\* sync.py 296-301: the filter of sync_history for an anime and an episode.
matches_filter(h, anime_id, episode) ==
  /\ dict_get(h, "anime_id") = anime_id
  /\ dict_get(h, "episode") = episode

\* The record of an operation on the history database.
HistCall(op) ==
  /\ hist_op' = op
  /\ UNCHANGED notHistVars

\* history.py 40-64: record_watch.
record_watch(anime_id, episode, source, history_enabled, db_ok) ==
  /\ history' = IF history_enabled /\ db_ok
                  THEN inserted(history, anime_id, episode, source, hist_now)
                  ELSE history
  /\ hist_return' = (history_enabled /\ db_ok)
  /\ UNCHANGED <<hist_now, hist_sync>>
  /\ HistCall("record_watch")

\* history.py 190-232: prune_history (service.py 105-119 calls it once a day).
prune_history(max_entries, db_ok) ==
  /\ history' = IF db_ok THEN pruned(history, max_entries) ELSE history
  /\ hist_return' = db_ok
  /\ UNCHANGED <<hist_now, hist_sync>>
  /\ HistCall("prune_history")

\* history.py 173-188: clear_history deletes every row.
clear_history(db_ok) ==
  /\ history' = IF db_ok THEN {} ELSE history
  /\ hist_return' = db_ok
  /\ UNCHANGED <<hist_now, hist_sync>>
  /\ HistCall("clear_history")

\* sync.py 379-445: update_watch_status calls record_watch with the keywords
\* title, progress, status, image and episode_count, which record_watch does
\* not take: the TypeError is caught at 443 and False is returned before any
\* sync.
sync_update_watch_status(anime_id, episode, source) ==
  /\ hist_return' = FALSE
  /\ UNCHANGED <<history, hist_now, hist_sync>>
  /\ HistCall("update_watch_status")

\* sync.py 266-377: sync_history(services, anime_id=..., episode=...) with
\* nservices services: the local history is read and filtered; with nothing
\* left it returns "No matching history found", else every item is
\* processed once for each service (processed: the items_processed of the
\* services together).
sync_history_filtered(nservices, anime_id, episode, history_enabled, db_ok) ==
  LET local_history == {h \in watch_history_dicts(history_enabled, db_ok) :
                          matches_filter(h, anime_id, episode)}
      stored == {r \in history : r.anime_id = anime_id /\ r.episode = episode}
  IN  /\ hist_sync' = [called |-> history_enabled /\ db_ok,
                       anime_id |-> anime_id, episode |-> episode,
                       stored |-> Cardinality(stored),
                       total_items |-> Cardinality(local_history),
                       no_match |-> local_history = {},
                       processed |-> nservices * Cardinality(local_history),
                       services |-> nservices]
      /\ hist_return' = (local_history # {})
      /\ UNCHANGED <<history, hist_now>>
      /\ HistCall("sync_history")

\* Time passes.
HistTick ==
  /\ hist_now < MaxHistClock
  /\ hist_now' = hist_now + 1
  /\ UNCHANGED <<history, hist_op, hist_return, hist_sync>>
  /\ UNCHANGED notHistVars

HistoryNext ==
  \/ \E anime_id \in HistIds, episode \in 1..MaxEpisode, source \in LibSources,
        history_enabled \in BOOLEAN, db_ok \in BOOLEAN :
       record_watch(anime_id, episode, source, history_enabled, db_ok)
  \/ \E max_entries \in 1..MaxPruneLimit, db_ok \in BOOLEAN :
       prune_history(max_entries, db_ok)
  \/ \E db_ok \in BOOLEAN : clear_history(db_ok)
  \/ \E anime_id \in HistIds, episode \in 1..MaxEpisode, source \in LibSources :
       sync_update_watch_status(anime_id, episode, source)
  \/ \E nservices \in 1..2, anime_id \in HistIds, episode \in 1..MaxEpisode,
        history_enabled \in BOOLEAN, db_ok \in BOOLEAN :
       sync_history_filtered(nservices, anime_id, episode, history_enabled, db_ok)
  \/ HistTick

\* A new profile: get_conn (history.py 20-38) creates an empty table.
InitHistory ==
  /\ library = <<>>
  /\ watch_history = <<>>
  /\ now = 0
  /\ lib_return = FALSE
  /\ lastOp = NoCall
  /\ repeated = FALSE
  /\ watchlist = <<>>
  /\ history = {}
  /\ sync_pc = "idle"
  /\ enabled_services = {}
  /\ sync_settings = {}
  /\ has_callback = FALSE
  /\ cancel_flag = FALSE
  /\ stage = 1
  /\ svcIdx = 1
  /\ itemIdx = 1
  /\ local_items = <<>>
  /\ service_result = NoServiceResult
  /\ results = [g \in Stages |-> NoStageResult]
  /\ sync_return = NoReturn
  /\ stagesEntered = <<>>
  /\ callbacks = 0
  /\ remoteCalls = 0
  /\ visits = [g \in {"watchlist", "history"} |->
                 [s \in Services |-> [i \in 1..MaxItems |-> 0]]]
  /\ cancelStage = "none"
  /\ cancelPreset = FALSE
  /\ storeAtStart = <<{}, <<>>, <<>>>>
  /\ req_pc = "idle"
  /\ client = "anilist"
  /\ max_retries = 0
  /\ attempt = 0
  /\ hasAuth = FALSE
  /\ req_result = "none"
  /\ json_error = "ValueError"
  /\ httpCalls = 0
  /\ refreshCalls = 0
  /\ seen = {}
  /\ bodiesSeen = {}
  /\ waited = FALSE
  /\ cache_file = NoFile
  /\ cache_now = 0
  /\ remote_version = 0
  /\ cache_call = NoCacheCall
  /\ player_pc = "idle"
  /\ p_episode = 1
  /\ p_total = 0
  /\ duration = 0
  /\ last_progress_update = 0
  /\ play_clock = progress_update_interval
  /\ session = 0
  /\ polls = 0
  /\ markCalls = 0
  /\ reached90 = FALSE
  /\ endRuns = 0
  /\ sample = NoSample
  /\ wl_return = FALSE
  /\ wl_call = NoWatchlistCall
  /\ sched_now = MaxInterval
  /\ last_sync_time = 0
  /\ last_sync_setting = NoTime
  /\ sync_threads = {}
  /\ monitor_run = NoTime
  /\ user_run = NoTime
  /\ last_success = 0
  /\ sched_check = NoSchedCheck
  /\ hist_now = 0
  /\ hist_op = "none"
  /\ hist_return = FALSE
  /\ hist_sync = NoHistSync

SpecHistory == InitHistory /\ [][HistoryNext]_vars

(***************************************************************************)
(* Properties of the history database, checked under SpecHistory.          *)
(***************************************************************************)
\* C28: the history log is append-only: no step other than a bulk
\* clear_history removes or changes a recorded event, neither a repeated
\* watch of the same anime, source and episode, nor prune_history, nor a
\* sync operation.
C28_HistoryAppendOnly ==
  [][hist_op' # "clear_history" => history \subseteq history']_vars

\* C29: a history sync filtered to an anime and an episode has total_items
\* equal to the number of stored events of that anime and episode, processes
\* each once for each service, and with at least one such event stored does
\* not report that no matching history exists.
C29_FilteredSyncFindsEvents ==
  hist_sync.called =>
     /\ hist_sync.total_items = hist_sync.stored
     /\ hist_sync.processed = hist_sync.services * hist_sync.stored
     /\ hist_sync.stored >= 1 => ~hist_sync.no_match

====
